---- MODULE Spec2Model ----
(***************************************************************************)
(* The chain message handler of avalanchego/snow/networking/handler:       *)
(* Start, Push, Stop, the sync, async and chan dispatch loops, the async   *)
(* worker pool, closeDispatcher and the terminal shutdown routine.         *)
(*                                                                         *)
(* The MessageQueue, the worker Pool and the EngineManager are used by the *)
(* handler but their code is not part of the sources at hand; they are     *)
(* modelled from their contract (sections 3, 4.1 and 4.2 of the            *)
(* specification).  The engines are black boxes: a call into an engine is  *)
(* a step that starts, stays in progress, and returns ok or an error.      *)
(***************************************************************************)
EXTENDS Integers, Sequences, FiniteSets, TLC

(***************************************************************************)
(* Bounds of the model.                                                    *)
(***************************************************************************)
MaxInputs   == 2   \* inputs of a run: pushes, VM notifications, gossip
                   \* ticks and RegisterTimeout calls together
PoolSize    == 2   \* threadPoolSize given to New
NumStoppers == 1   \* external callers of Stop
MaxTime     == 1   \* the clock runs from 0 to MaxTime
MaxGossip   == 2   \* ticks of the gossip ticker
MaxVM       == 1   \* notifications sent by the VM
MaxTimers   == 2   \* calls of RegisterTimeout
TimerInputs == 2   \* inputs of the run that checks the timeout goroutines
UnhandledInputs == 2 \* inputs of the run with unhandled payloads
MaxVTime    == 3   \* the clock of the validator set runs from 0 to MaxVTime
LiveInputs  == 1   \* inputs of a run of the fair specification
SyncInputs  == 1   \* inputs of a run of the sync-message specification
OrderInputs == 3   \* inputs of a run of the delivery-order specification

(***************************************************************************)
(* Program constants and vocabulary.                                       *)
(***************************************************************************)
numDispatchersToClose == 3

Nil    == <<"none", 0>>      \* no thread
NoCall == <<"none", "none">> \* no engine call
\* a message: known says whether the type of its payload has a case in the
\* switch of the loop it is handed to
NoMsg == [id |-> 0, op |-> "none", node |-> "none", exp |-> 0,
          etype |-> "Unspecified", valid |-> TRUE,
          known |-> TRUE]

Types  == {"Avalanche", "Snowman"}
States == {"StateSyncing", "Bootstrapping", "NormalOp"}
Nodes  == {"n1", "n2"}

\* the operation kinds handler.Push sends to the async queue
AsyncOps ==
  {"AppRequest", "AppRequestFailed", "AppResponse", "AppGossip",
   "CrossChainAppRequest", "CrossChainAppRequestFailed",
   "CrossChainAppResponse"}

\* the payload types handleSyncMsg has a case for
SyncOps ==
  {"GetStateSummaryFrontier", "StateSummaryFrontier",
   "GetStateSummaryFrontierFailed", "GetAcceptedStateSummary",
   "AcceptedStateSummary", "GetAcceptedStateSummaryFailed",
   "GetAcceptedFrontier", "AcceptedFrontier", "GetAcceptedFrontierFailed",
   "GetAccepted", "Accepted", "GetAcceptedFailed", "GetAncestors",
   "GetAncestorsFailed", "Ancestors", "Get", "GetFailed", "Put",
   "PushQuery", "PullQuery", "Chits", "QueryFailed", "Connected",
   "ConnectedSubnet", "Disconnected"}

\* the payload types handleChanMsg has a case for
ChanOps == {"Notify", "GossipRequest", "Timeout"}

AllOps == AsyncOps \cup SyncOps \cup ChanOps

\* threads of execution
T_start == <<"start", 0>>
T_sync  == <<"sync", 0>>
T_async == <<"async", 0>>
T_chan  == <<"chan", 0>>
Workers  == {<<"worker", i>> : i \in 1..PoolSize}
Stoppers == {<<"stopper", i>> : i \in 1..NumStoppers}
Threads  == {T_start, T_sync, T_async, T_chan} \cup Workers \cup Stoppers

VARIABLES
  pc,          \* position of every thread
  cur,         \* the message a loop or worker is handling
  call,        \* the engine call a thread is inside: <<engine type, method>>
  syncQ,       \* syncMessageQueue: queued messages
  asyncQ,      \* asyncMessageQueue: queued messages
  syncClosed,  \* syncMessageQueue was shut down
  asyncClosed, \* asyncMessageQueue was shut down
  lock,        \* ctx.Lock: the thread holding it, or Nil
  once,        \* closeOnce: "fresh", "running" or "done"
  closingCloses,        \* number of close(closingChan)
  closedCloses,         \* number of close(closed)
  numDispatchersClosed, \* handler.numDispatchersClosed
  ctxState,    \* ctx.State: [type, state]
  reg,         \* engineManager: type -> the Engines value registered for it
  gear,        \* the gear Start selected
  now,         \* clock.Time()
  nextId,      \* identity of the next message handed to Push
  lim,         \* how many inputs this run gives to the handler
  routed,      \* message id -> <<queue, op>> for each queue Push handed it to
  delivered,   \* message id -> engine methods invoked for it
  finished,    \* message id -> number of OnFinishedHandling calls
  popped,      \* message id -> "no", or whether Pop returned it before
               \* ("intime") or after ("late") its deadline
  expired,     \* metrics.expired
  asyncExpired,\* metrics.asyncExpired
  vmChan,      \* notifications waiting in msgFromVMChan
  vmSent,      \* notifications the VM has sent
  ticks,       \* gossip ticks consumed
  timeouts,    \* tokens in the timeouts channel (capacity 1)
  timers,      \* [registered, waiting, coalesced] RegisterTimeout goroutines
  timerC,      \* waiting goroutines whose timer.C holds its tick
  preemptTimeouts, \* the preemptTimeouts channel was closed
  chanCalls,   \* engine methods invoked by the chan loop, in order
  hist,        \* counters and flags observing the run
  defaultValidators,       \* validators.defaultValidators:
                           \* [initialized, vdrMap]
  customValidatorsExpTime, \* validators.customValidatorsExpTime
  vdrCall      \* the last call of package validators and what it returned

handlerVars ==
  <<pc, cur, call, syncQ, asyncQ, syncClosed, asyncClosed, lock, once,
    closingCloses, closedCloses, numDispatchersClosed, ctxState, reg,
    gear, now, nextId, lim, routed, delivered, finished,
    popped, expired, asyncExpired, vmChan, vmSent, ticks, timeouts,
    timers, timerC, preemptTimeouts, chanCalls, hist>>

vdrVars == <<defaultValidators, customValidatorsExpTime, vdrCall>>

vars == <<handlerVars, vdrVars>>

\* identities of the messages a run may hand to Push
MsgIds == 1..lim

(***************************************************************************)
(* EngineManager.Get(type) and Engines.Get(state).                         *)
(***************************************************************************)
\* Get(type) is nil for a type without an Engines value; a nil Engines value
\* has no engine for any state
NoEngines == [some |-> FALSE, states |-> {}]
Engines(S) == [some |-> TRUE, states |-> S]

EnginesOf(r, type) == IF type \in Types THEN r[type] ELSE NoEngines

HasEngine(r, type, state) ==
  /\ EnginesOf(r, type).some
  /\ state \in EnginesOf(r, type).states

\* the case list of Push without its second line
PushQueue_firstLine(op) ==
  IF op \in {"AppRequest", "AppRequestFailed", "AppResponse", "AppGossip"}
    THEN "async" ELSE "sync"

(***************************************************************************)
(* handler.Push: the queue a message is handed to, by operation kind.      *)
(***************************************************************************)
PushQueue(op) == IF op \in AsyncOps THEN "async" ELSE "sync"

(***************************************************************************)
(* handleSyncMsg: engine-type resolution and the switch over the payload.  *)
(* The result tells what the handler does once it holds the lock:          *)
(*   "drop"      return nil without calling anything,                      *)
(*   "error"     return an error without calling anything,                 *)
(*   "call"      invoke the method of the engine of type etype,            *)
(*   "connector" invoke subnetConnector.ConnectedSubnet.                   *)
(***************************************************************************)
\* the requested engine type is ignored
SyncEngineType_current(m, st) == st.type

SyncEngineType(m, st) ==
  IF m.etype \in Types THEN m.etype ELSE st.type

\* the response handler is called whether the payload decodes or not
SyncMethod_noFailed(op, valid) == op

\* the engine method a payload leads to; valid says whether its ids decode
\* (for GetAcceptedStateSummary: whether its heights are unique)
SyncMethod(op, valid) ==
  IF valid THEN op
  ELSE CASE op = "GetAcceptedStateSummary" -> "GetAcceptedStateSummaryFailed"
         [] op = "AcceptedStateSummary"    -> "GetAcceptedStateSummaryFailed"
         [] op = "AcceptedFrontier"        -> "GetAcceptedFrontierFailed"
         [] op = "Accepted"                -> "GetAcceptedFailed"
         [] op = "Chits"                   -> "QueryFailed"
         [] OTHER                          -> op

\* payloads whose decoding failure makes handleSyncMsg return nil
DropsWhenInvalid == {"GetAccepted", "GetAncestors", "Get", "PullQuery"}

\* ConnectedSubnet handed to the resolved engine
SyncSwitch_connectorEngine(m, et) ==
  IF m.op \notin SyncOps \/ ~m.known
    THEN [kind |-> "error", etype |-> "none", method |-> "none"]
  ELSE IF ~m.valid /\ m.op \in DropsWhenInvalid
    THEN [kind |-> "drop", etype |-> "none", method |-> "none"]
  ELSE [kind |-> "call", etype |-> et, method |-> SyncMethod(m.op, m.valid)]

\* a switch whose default case returns nil
SyncSwitch_defaultNil(m, et) ==
  IF m.op \notin SyncOps \/ ~m.known
    THEN [kind |-> "drop", etype |-> "none", method |-> "none"]
  ELSE IF m.op = "ConnectedSubnet"
    THEN [kind |-> "connector", etype |-> "SubnetConnector",
          method |-> "ConnectedSubnet"]
  ELSE IF ~m.valid /\ m.op \in DropsWhenInvalid
    THEN [kind |-> "drop", etype |-> "none", method |-> "none"]
  ELSE [kind |-> "call", etype |-> et, method |-> SyncMethod(m.op, m.valid)]

SyncSwitch(m, et) ==
  IF m.op \notin SyncOps \/ ~m.known
    THEN [kind |-> "error", etype |-> "none", method |-> "none"]
  ELSE IF m.op = "ConnectedSubnet"
    THEN [kind |-> "connector", etype |-> "SubnetConnector",
          method |-> "ConnectedSubnet"]
  ELSE IF ~m.valid /\ m.op \in DropsWhenInvalid
    THEN [kind |-> "drop", etype |-> "none", method |-> "none"]
  ELSE [kind |-> "call", etype |-> et, method |-> SyncMethod(m.op, m.valid)]

\* a missing engine returned as an error, as the other two handlers do
handleSyncMsg_missingFatal(m, st, r) ==
  IF m.etype = "Snowman" /\ st.type = "Avalanche"
    THEN [kind |-> "drop", etype |-> "none", method |-> "none"]
  ELSE IF ~HasEngine(r, SyncEngineType(m, st), st.state)
    THEN [kind |-> "error", etype |-> "none", method |-> "none"]
  ELSE SyncSwitch(m, SyncEngineType(m, st))

handleSyncMsg(m, st, r) ==
  IF m.etype = "Snowman" /\ st.type = "Avalanche"
    THEN [kind |-> "drop", etype |-> "none", method |-> "none"]
  ELSE IF ~HasEngine(r, SyncEngineType(m, st), st.state)
    THEN [kind |-> "drop", etype |-> "none", method |-> "none"]
  ELSE SyncSwitch(m, SyncEngineType(m, st))

(***************************************************************************)
(* executeAsyncMsg: the current engine is looked up without the lock; a    *)
(* missing engine and an unhandled payload are errors.                     *)
(***************************************************************************)
executeAsyncMsg(m, st, r) ==
  IF ~HasEngine(r, st.type, st.state)
    THEN [kind |-> "error", etype |-> "none", method |-> "none"]
  ELSE IF m.op \notin AsyncOps \/ ~m.known
    THEN [kind |-> "error", etype |-> "none", method |-> "none"]
  ELSE [kind |-> "call", etype |-> st.type, method |-> m.op]

(***************************************************************************)
(* handleChanMsg: the engine calls a chan message leads to, in order.  An  *)
(* empty sequence means an error is returned before any call.              *)
(***************************************************************************)
\* handleChanMsg that never gossips the Avalanche engine of a linearized chain
handleChanMsg_noOldGossip(op, st, r) ==
  IF ~HasEngine(r, st.type, st.state) THEN <<>>
  ELSE CASE op = "Notify"  -> <<<<st.type, "Notify">>>>
         [] op = "Timeout" -> <<<<st.type, "Timeout">>>>
         [] op = "GossipRequest" -> <<<<st.type, "Gossip">>>>
         [] OTHER -> <<>>

handleChanMsg(op, st, r) ==
  IF ~HasEngine(r, st.type, st.state) THEN <<>>
  ELSE CASE op = "Notify"  -> <<<<st.type, "Notify">>>>
         [] op = "Timeout" -> <<<<st.type, "Timeout">>>>
         [] op = "GossipRequest" ->
              IF st.type = "Snowman" /\ HasEngine(r, "Avalanche", st.state)
                THEN <<<<"Avalanche", "Gossip">>, <<st.type, "Gossip">>>>
                ELSE <<<<st.type, "Gossip">>>>
         [] OTHER -> <<>>

(***************************************************************************)
(* selectStartingGear.  enabled and isEnabledErr are what                  *)
(* StateSyncer.IsEnabled returns, clearErr what Bootstrapper.Clear returns.*)
(* The result names the gear ("nil" when the Engines value has no          *)
(* Bootstrapper), whether an error is returned and which, whether Clear    *)
(* ran, and what IsEnabled answered.  Bootstrapper.Clear() on an Engines   *)
(* value without a Bootstrapper is a call on a nil interface: it panics.   *)
(***************************************************************************)
selectStartingGear(st, r, enabled, isEnabledErr, clearErr) ==
  LET engines == EnginesOf(r, st.type)
      boot == IF "Bootstrapping" \in engines.states THEN "Bootstrapper"
              ELSE "nil"
  IN
  IF ~engines.some
    THEN [gear |-> "none", err |-> TRUE, cleared |-> FALSE,
          why |-> "NoStartingGear", isEnabled |-> "notCalled",
          panics |-> FALSE]
  ELSE IF "StateSyncing" \notin engines.states
    THEN [gear |-> boot, err |-> FALSE, cleared |-> FALSE,
          why |-> "none", isEnabled |-> "notCalled", panics |-> FALSE]
  ELSE IF isEnabledErr
    THEN [gear |-> "none", err |-> TRUE, cleared |-> FALSE,
          why |-> "IsEnabled", isEnabled |-> "error", panics |-> FALSE]
  ELSE IF ~enabled
    THEN [gear |-> boot, err |-> FALSE, cleared |-> FALSE,
          why |-> "none", isEnabled |-> "false", panics |-> FALSE]
  ELSE IF boot = "nil"
    THEN [gear |-> "none", err |-> FALSE, cleared |-> FALSE,
          why |-> "none", isEnabled |-> "true", panics |-> TRUE]
  ELSE [gear |-> "StateSyncer", err |-> clearErr, cleared |-> TRUE,
        why |-> IF clearErr THEN "Clear" ELSE "none",
        isEnabled |-> "true", panics |-> FALSE]

(***************************************************************************)
(* MessageQueue (from its contract): per-node order is kept, the order     *)
(* across nodes is free, so Pop may return the oldest message of any node. *)
(***************************************************************************)
\* a queue that may return any queued message, whatever its node
Poppable_anyItem(q) == 1..Len(q)

Poppable(q) ==
  {i \in 1..Len(q) : \A j \in 1..(i - 1) : q[j].node # q[i].node}

Without(q, i) == SubSeq(q, 1, i - 1) \o SubSeq(q, i + 1, Len(q))

\* the comparison turned around: expiration.After(clock.Time())
Expired_reversed(m, t) == m.exp > t

\* clock.Time().After(expiration)
Expired(m, t) == t > m.exp

(***************************************************************************)
(* Initial states: the handler after New and SetEngineManager.             *)
(***************************************************************************)
RegSnowman  == [Avalanche |-> NoEngines, Snowman |-> Engines(States)]
RegLinear   == [Avalanche |-> Engines({"Bootstrapping", "NormalOp"}),
                Snowman   |-> Engines({"Bootstrapping", "NormalOp"})]
RegBootOnly == [Avalanche |-> NoEngines,
                Snowman   |-> Engines({"Bootstrapping"})]
RegEmpty    == [Avalanche |-> NoEngines, Snowman |-> NoEngines]

\* engine registries with the state the chain is created in
Configs ==
  {<<RegSnowman,  [type |-> "Snowman",   state |-> "StateSyncing"]>>,
   <<RegLinear,   [type |-> "Avalanche", state |-> "Bootstrapping"]>>,
   <<RegBootOnly, [type |-> "Snowman",   state |-> "Bootstrapping"]>>,
   <<RegEmpty,    [type |-> "Snowman",   state |-> "Bootstrapping"]>>}

(***************************************************************************)
(* Package validators: the default validator set, a package variable that  *)
(* InitializeDefaultValidators fills and three functions read.  Time is    *)
(* 0..MaxVTime; MaxVTime stands for the year 10000 of the expiration       *)
(* defaults and for every instant after it.                                *)
(***************************************************************************)
songbirdValidatorWeight == 50000
costonValidatorWeight   == 200000
customValidatorWeight   == 200000

songbirdValidatorsExpTime == MaxVTime
costonValidatorsExpTime   == MaxVTime

VTimes == 0..MaxVTime

\* constants.LocalID, SongbirdID, CostonID, and a network without a case
NetworkIDs == {"LocalID", "SongbirdID", "CostonID", "FlareID"}

\* the node IDs compiled into the package
CostonNodeIDs ==
  <<"NodeID-5dDZ", "NodeID-EkH8", "NodeID-FPAw", "NodeID-AQgh",
    "NodeID-HaZ4">>
SongbirdNodeIDs == <<"NodeID-HaZ4">>

\* items of CUSTOM_VALIDATORS between its commas: nothing, a node ID, or
\* text that is no node ID
CustomItems == {"", "NodeID-Cus1", "NodeID-Cus2", "junk"}

\* values of CUSTOM_VALIDATORS_EXPIRATION: unset, text that is no RFC3339
\* time, or an RFC3339 time
ExpStrings ==
  {[kind |-> "empty", t |-> 0], [kind |-> "junk", t |-> 0]}
    \cup {[kind |-> "rfc3339", t |-> t] : t \in 1..(MaxVTime - 1)}

\* the environment of the process: strings.Split(CUSTOM_VALIDATORS, ",") and
\* CUSTOM_VALIDATORS_EXPIRATION
Envs ==
  [list : {<<a>> : a \in CustomItems}
            \cup {<<a, b>> : a \in CustomItems \ {"junk"},
                             b \in CustomItems \ {""}},
   exp : ExpStrings]

\* the strings that are a prefixed node ID
PrefixedNodeIDs ==
  {CostonNodeIDs[i] : i \in 1..Len(CostonNodeIDs)}
    \cup {"NodeID-Cus1", "NodeID-Cus2"}

\* ids.ShortFromPrefixedString(nodeID, ids.NodeIDPrefix): the node ID the
\* string stands for, or an error
ShortFromPrefixedString(s) ==
  IF s \in PrefixedNodeIDs
    THEN [err |-> FALSE, id |-> s]
    ELSE [err |-> TRUE, id |-> "none"]

\* createValidators: empty items are skipped, an item that is no node ID
\* makes it panic
RECURSIVE createValidators(_, _)
createValidators(nodeIDs, weight) ==
  IF nodeIDs = <<>> THEN [panics |-> FALSE, vdrs |-> <<>>]
  ELSE LET rest == createValidators(Tail(nodeIDs), weight)
           short == ShortFromPrefixedString(Head(nodeIDs))
       IN IF Head(nodeIDs) = "" THEN rest
          ELSE IF short.err THEN [panics |-> TRUE, vdrs |-> <<>>]
          ELSE IF rest.panics THEN rest
          ELSE [panics |-> FALSE,
                vdrs |-> <<[nodeID |-> short.id, weight |-> weight]>>
                           \o rest.vdrs]

\* time.Parse(time.RFC3339, s)
ParseRFC3339(s) ==
  IF s.kind = "rfc3339" THEN [err |-> FALSE, t |-> s.t]
  ELSE [err |-> TRUE, t |-> 0]

\* loadCustomValidators: the expiration of the environment replaces the
\* package variable when it parses; exp is the value of
\* customValidatorsExpTime when the function returns
loadCustomValidators(timestamp, env, expTime) ==
  LET parsed == ParseRFC3339(env.exp)
      exp == IF env.exp.kind # "empty" /\ ~parsed.err
               THEN parsed.t ELSE expTime
  IN IF ~(timestamp < exp)
       THEN [exp |-> exp, panics |-> FALSE, vdrs |-> <<>>]
       ELSE [exp |-> exp] @@ createValidators(env.list,
                                              customValidatorWeight)

loadCostonValidators(timestamp) ==
  IF ~(timestamp < costonValidatorsExpTime)
    THEN [panics |-> FALSE, vdrs |-> <<>>]
    ELSE createValidators(CostonNodeIDs, costonValidatorWeight)

loadSongbirdValidators(timestamp) ==
  IF ~(timestamp < songbirdValidatorsExpTime)
    THEN [panics |-> FALSE, vdrs |-> <<>>]
    ELSE createValidators(SongbirdNodeIDs, songbirdValidatorWeight)

\* the map a list of validators is stored as: a later entry replaces an
\* earlier one with the same node ID
VdrMapOf(vdrs) ==
  [id \in {vdrs[i].nodeID : i \in 1..Len(vdrs)} |->
     LET last == CHOOSE i \in 1..Len(vdrs) :
                   /\ vdrs[i].nodeID = id
                   /\ \A j \in (i + 1)..Len(vdrs) : vdrs[j].nodeID # id
     IN vdrs[last]]

\* defaultValidatorSet.initialize without its first test
initialize_unguarded(dvs, expTime, networkID, timestamp, env) ==
  LET loaded ==
        CASE networkID = "LocalID" ->
               loadCustomValidators(timestamp, env, expTime)
          [] networkID = "SongbirdID" ->
               [exp |-> expTime] @@ loadSongbirdValidators(timestamp)
          [] networkID = "CostonID" ->
               [exp |-> expTime] @@ loadCostonValidators(timestamp)
          [] OTHER -> [exp |-> expTime, panics |-> FALSE, vdrs |-> <<>>]
  IN IF loaded.panics
       THEN [dvs |-> dvs, exp |-> loaded.exp, panics |-> TRUE]
       ELSE [dvs |-> [initialized |-> TRUE, vdrMap |-> VdrMapOf(loaded.vdrs)],
             exp |-> loaded.exp, panics |-> FALSE]

\* defaultValidatorSet.initialize: what the set and customValidatorsExpTime
\* are when it returns or panics
initialize(dvs, expTime, networkID, timestamp, env) ==
  IF dvs.initialized
    THEN [dvs |-> dvs, exp |-> expTime, panics |-> FALSE]
  ELSE
  LET loaded ==
        CASE networkID = "LocalID" ->
               loadCustomValidators(timestamp, env, expTime)
          [] networkID = "SongbirdID" ->
               [exp |-> expTime] @@ loadSongbirdValidators(timestamp)
          [] networkID = "CostonID" ->
               [exp |-> expTime] @@ loadCostonValidators(timestamp)
          [] OTHER -> [exp |-> expTime, panics |-> FALSE, vdrs |-> <<>>]
  IN IF loaded.panics
       THEN [dvs |-> dvs, exp |-> loaded.exp, panics |-> TRUE]
       ELSE [dvs |-> [initialized |-> TRUE, vdrMap |-> VdrMapOf(loaded.vdrs)],
             exp |-> loaded.exp, panics |-> FALSE]

\* defaultValidatorSet.list: the validators of the map, in no order
list(dvs) ==
  IF ~dvs.initialized THEN [panics |-> TRUE, vdrs |-> {}]
  ELSE [panics |-> FALSE,
        vdrs |-> {dvs.vdrMap[id] : id \in DOMAIN dvs.vdrMap}]

isValidator(dvs, vdrID) ==
  IF ~dvs.initialized THEN [panics |-> TRUE, ok |-> FALSE]
  ELSE [panics |-> FALSE, ok |-> vdrID \in DOMAIN dvs.vdrMap]

\* defaultValidatorSet.expiredValidators: the whole set once the expiration
\* of the given network has come, nothing before
expiredValidators(dvs, expTime, networkID, timestamp) ==
  IF ~dvs.initialized THEN [panics |-> TRUE, vdrs |-> {}]
  ELSE LET exp == CASE networkID = "LocalID" -> expTime
                    [] networkID = "SongbirdID" -> songbirdValidatorsExpTime
                    [] networkID = "CostonID" -> costonValidatorsExpTime
                    [] OTHER -> MaxVTime + 1
       IN IF ~(timestamp < exp) THEN list(dvs)
          ELSE [panics |-> FALSE, vdrs |-> {}]

\* what a call of the package returned, as its caller sees it
NoCallYet ==
  [call |-> "none", networkID |-> "none", timestamp |-> 0,
   panics |-> FALSE, vdrs |-> {}, ok |-> FALSE]

\* InitializeDefaultValidators(networkID, timestamp), in any environment
InitializeDefaultValidators ==
  \E networkID \in NetworkIDs, timestamp \in VTimes, env \in Envs :
    LET r == initialize(defaultValidators, customValidatorsExpTime,
                        networkID, timestamp, env)
    IN /\ defaultValidators' = r.dvs
       /\ customValidatorsExpTime' = r.exp
       /\ vdrCall' = [NoCallYet EXCEPT
                        !.call = "InitializeDefaultValidators",
                        !.networkID = networkID,
                        !.timestamp = timestamp,
                        !.panics = r.panics]
       /\ UNCHANGED handlerVars

DefaultValidatorList ==
  LET r == list(defaultValidators)
  IN /\ vdrCall' = [NoCallYet EXCEPT !.call = "DefaultValidatorList",
                                     !.panics = r.panics,
                                     !.vdrs = r.vdrs]
     /\ UNCHANGED <<defaultValidators, customValidatorsExpTime, handlerVars>>

IsDefaultValidator ==
  \E s \in PrefixedNodeIDs :
    LET r == isValidator(defaultValidators, ShortFromPrefixedString(s).id)
    IN /\ vdrCall' = [NoCallYet EXCEPT !.call = "IsDefaultValidator",
                                       !.panics = r.panics,
                                       !.ok = r.ok]
       /\ UNCHANGED <<defaultValidators, customValidatorsExpTime,
                      handlerVars>>

ExpiredDefaultValidators ==
  \E networkID \in NetworkIDs, timestamp \in VTimes :
    LET r == expiredValidators(defaultValidators, customValidatorsExpTime,
                               networkID, timestamp)
    IN /\ vdrCall' = [NoCallYet EXCEPT
                        !.call = "ExpiredDefaultValidators",
                        !.networkID = networkID,
                        !.timestamp = timestamp,
                        !.panics = r.panics,
                        !.vdrs = r.vdrs]
       /\ UNCHANGED <<defaultValidators, customValidatorsExpTime,
                      handlerVars>>

InitHist ==
  [stopBodyRuns |-> 0, halts |-> 0,
   shutdownRuns |-> 0, engineShutdowns |-> 0, shutdownErrs |-> 0,
   onStoppedSet |-> FALSE, onStoppedRuns |-> 0,
   chanFinished |-> 0, finishedLocked |-> FALSE, oldGossips |-> 0,
   preemptWakes |-> 0, droppedAfterExit |-> FALSE, poolShutdowns |-> 0,
   proc |-> [i \in 0..lim |-> <<>>],
   clears |-> 0, gearStarts |-> 0, started |-> "no",
   stopFirst |-> FALSE,
   syncEngineErr |-> FALSE, connectorErr |-> FALSE,
   engineErr |-> FALSE,
   isEnabled |-> "notCalled", gearErr |-> "none"]

InitPc ==
  [t \in Threads |->
     IF t = T_start THEN "init"
     ELSE IF t \in Workers THEN "idle"
     ELSE IF t \in Stoppers THEN "stop"
     ELSE "off"]

InitFrom(configs, n) ==
  /\ pc = InitPc
  /\ cur = [t \in Threads |-> NoMsg]
  /\ call = [t \in Threads |-> NoCall]
  /\ syncQ = <<>> /\ asyncQ = <<>>
  /\ syncClosed = FALSE /\ asyncClosed = FALSE
  /\ lock = Nil
  /\ once = "fresh"
  /\ closingCloses = 0 /\ closedCloses = 0 /\ numDispatchersClosed = 0
  /\ \E c \in configs : reg = c[1] /\ ctxState = c[2]
  /\ gear = "none"
  /\ now = 0
  /\ nextId = 1
  /\ lim = n
  /\ routed = [i \in MsgIds |-> {}]
  /\ delivered = [i \in MsgIds |-> <<>>]
  /\ finished = [i \in MsgIds |-> 0]
  /\ popped = [i \in MsgIds |-> "no"]
  /\ expired = 0 /\ asyncExpired = 0
  /\ vmChan = 0 /\ vmSent = 0 /\ ticks = 0 /\ timeouts = 0
  /\ timers = [registered |-> 0, waiting |-> 0, coalesced |-> 0]
  /\ timerC = 0
  /\ preemptTimeouts = FALSE
  /\ chanCalls = <<>>
  /\ hist = InitHist
  /\ defaultValidators = [initialized |-> FALSE, vdrMap |-> VdrMapOf(<<>>)]
  /\ customValidatorsExpTime = MaxVTime
  /\ vdrCall = NoCallYet

InitWith(n) == InitFrom(Configs, n)

Init == InitWith(MaxInputs)

qVars    == <<syncQ, asyncQ, syncClosed, asyncClosed>>
msgVars  == <<nextId, routed, delivered, finished, popped, expired,
              asyncExpired>>
wakeVars == <<timerC, preemptTimeouts>>
chanVars == <<vmChan, vmSent, ticks, timeouts, timers, wakeVars, chanCalls>>
cfgVars  == <<reg, lim, vdrVars>>
shutVars == <<once, closingCloses, closedCloses, numDispatchersClosed>>

\* an engine method handling a message is in progress in thread t
InEngine(t) == pc[t] = "engine"

(***************************************************************************)
(* The clock.  Time is read only to compare it with the deadline of a      *)
(* popped message, so the steps of the clock that matter are those that    *)
(* carry it past the deadline of a message waiting in a queue.             *)
(***************************************************************************)
Tick ==
  /\ now < MaxTime
  /\ \E i \in 1..(Len(syncQ) + Len(asyncQ)) : (syncQ \o asyncQ)[i].exp = now
  /\ now' = now + 1
  /\ UNCHANGED <<pc, cur, call, qVars, lock, shutVars, ctxState, cfgVars,
                 gear, msgVars, chanVars, hist>>

(***************************************************************************)
(* The engines move the chain through its lifecycle while they are called  *)
(* under the consensus lock: state sync, bootstrap, normal operation, and  *)
(* the linearization of an Avalanche chain into a Snowman chain.           *)
(***************************************************************************)
NextStates(st) ==
  CASE st.state = "StateSyncing"  -> {[st EXCEPT !.state = "Bootstrapping"]}
    [] st.state = "Bootstrapping" -> {[st EXCEPT !.state = "NormalOp"]}
    [] st.state = "NormalOp" /\ st.type = "Avalanche" ->
         {[type |-> "Snowman", state |-> "Bootstrapping"]}
    [] OTHER -> {}

Transition ==
  /\ lock # Nil
  /\ pc[lock] \in {"engine", "gearStart"}
  /\ \E st \in NextStates(ctxState) : ctxState' = st
  /\ UNCHANGED <<pc, cur, call, qVars, lock, shutVars, cfgVars, gear, now,
                 msgVars, chanVars, hist>>

(***************************************************************************)
(* handler.shutdown, the terminal routine: Shutdown of the current engine  *)
(* (when there is one; its error is only logged), the on-stopped callback  *)
(* in a goroutine when one was set, close(h.closed).  The caller holds the *)
(* lock.                                                                   *)
(***************************************************************************)
\* shutdown whose error paths return before the on-stopped callback
shutdownHist_plainReturn(h, onStopped, err) ==
  LET has == HasEngine(reg, ctxState.type, ctxState.state)
  IN [h EXCEPT !.shutdownRuns = @ + 1,
               !.engineShutdowns = @ + (IF has THEN 1 ELSE 0),
               !.shutdownErrs = @ + (IF has /\ err THEN 1 ELSE 0),
               !.onStoppedSet = onStopped,
               !.onStoppedRuns =
                  @ + (IF onStopped /\ has /\ ~err THEN 1 ELSE 0)]

shutdownHist(h, onStopped, err) ==
  LET has == HasEngine(reg, ctxState.type, ctxState.state)
  IN [h EXCEPT !.shutdownRuns = @ + 1,
               !.engineShutdowns = @ + (IF has THEN 1 ELSE 0),
               !.shutdownErrs = @ + (IF has /\ err THEN 1 ELSE 0),
               !.onStoppedSet = onStopped,
               !.onStoppedRuns = @ + (IF onStopped THEN 1 ELSE 0)]

\* SetOnStopped may have installed a callback or not
OnStoppedSet == BOOLEAN

\* engine.Shutdown may return an error
ShutdownErrs == BOOLEAN

(***************************************************************************)
(* handler.Start, under the consensus lock from beginning to end.          *)
(***************************************************************************)
\* Start that returns on a failed gear selection without calling shutdown
StartSelect_noShutdown ==
  /\ pc[T_start] = "init"
  /\ lock = Nil
  /\ \E enabled \in BOOLEAN, isEnabledErr \in BOOLEAN, clearErr \in BOOLEAN,
        cb \in OnStoppedSet, serr \in ShutdownErrs :
       LET g == selectStartingGear(ctxState, reg, enabled, isEnabledErr,
                                   clearErr)
           h == [hist EXCEPT !.clears = @ + (IF g.cleared THEN 1 ELSE 0),
                             !.isEnabled = g.isEnabled,
                             !.gearErr = g.why]
       IN IF g.panics
            THEN \* the deferred Unlock runs, nothing else of Start does
                 /\ gear' = "none"
                 /\ hist' = [h EXCEPT !.started = "panicked"]
                 /\ pc' = [pc EXCEPT ![T_start] = "panicked"]
                 /\ UNCHANGED <<lock, closedCloses>>
          ELSE IF g.err
            THEN /\ gear' = "none"
                 /\ hist' = [h EXCEPT !.started = "failed"]
                 /\ UNCHANGED closedCloses
                 /\ pc' = [pc EXCEPT ![T_start] = "done"]
                 /\ UNCHANGED lock
            ELSE /\ gear' = g.gear
                 /\ hist' = h
                 /\ lock' = T_start
                 /\ pc' = [pc EXCEPT ![T_start] = "gearStart"]
                 /\ UNCHANGED closedCloses
  /\ UNCHANGED <<cur, call, qVars, once, closingCloses, numDispatchersClosed,
                 ctxState, cfgVars, now, msgVars, chanVars>>

\* Start that launches the three loops before gear.Start is called
StartSelect_earlyLoops ==
  /\ pc[T_start] = "init"
  /\ lock = Nil
  /\ \E enabled \in BOOLEAN, isEnabledErr \in BOOLEAN, clearErr \in BOOLEAN,
        cb \in OnStoppedSet, serr \in ShutdownErrs :
       LET g == selectStartingGear(ctxState, reg, enabled, isEnabledErr,
                                   clearErr)
           h == [hist EXCEPT !.clears = @ + (IF g.cleared THEN 1 ELSE 0),
                             !.isEnabled = g.isEnabled,
                             !.gearErr = g.why]
       IN IF g.panics
            THEN \* the deferred Unlock runs, nothing else of Start does
                 /\ gear' = "none"
                 /\ hist' = [h EXCEPT !.started = "panicked"]
                 /\ pc' = [pc EXCEPT ![T_start] = "panicked"]
                 /\ UNCHANGED <<lock, closedCloses>>
          ELSE IF g.err
            THEN /\ gear' = "none"
                 /\ hist' = shutdownHist([h EXCEPT !.started = "failed"],
                                          cb, serr)
                 /\ closedCloses' = closedCloses + 1
                 /\ pc' = [pc EXCEPT ![T_start] = "done"]
                 /\ UNCHANGED lock
            ELSE /\ gear' = g.gear
                 /\ hist' = h
                 /\ lock' = T_start
                 /\ pc' = [pc EXCEPT ![T_start] = "gearStart",
                                     ![T_sync] = "pop", ![T_async] = "pop",
                                     ![T_chan] = "select"]
                 /\ UNCHANGED closedCloses
  /\ UNCHANGED <<cur, call, qVars, once, closingCloses, numDispatchersClosed,
                 ctxState, cfgVars, now, msgVars, chanVars>>

\* the lock is taken and selectStartingGear runs; on an error: shutdown,
\* unlock and return
StartSelect ==
  /\ pc[T_start] = "init"
  /\ lock = Nil
  /\ \E enabled \in BOOLEAN, isEnabledErr \in BOOLEAN, clearErr \in BOOLEAN,
        cb \in OnStoppedSet, serr \in ShutdownErrs :
       LET g == selectStartingGear(ctxState, reg, enabled, isEnabledErr,
                                   clearErr)
           h == [hist EXCEPT !.clears = @ + (IF g.cleared THEN 1 ELSE 0),
                             !.isEnabled = g.isEnabled,
                             !.gearErr = g.why,
                             !.stopFirst = (once = "done")]
       IN IF g.panics
            THEN \* the deferred Unlock runs, nothing else of Start does
                 /\ gear' = "none"
                 /\ hist' = [h EXCEPT !.started = "panicked"]
                 /\ pc' = [pc EXCEPT ![T_start] = "panicked"]
                 /\ UNCHANGED <<lock, closedCloses>>
          ELSE IF g.err
            THEN /\ gear' = "none"
                 /\ hist' = shutdownHist([h EXCEPT !.started = "failed"],
                                          cb, serr)
                 /\ closedCloses' = closedCloses + 1
                 /\ pc' = [pc EXCEPT ![T_start] = "done"]
                 /\ UNCHANGED lock
            ELSE /\ gear' = g.gear
                 /\ hist' = h
                 /\ lock' = T_start
                 /\ pc' = [pc EXCEPT ![T_start] = "gearStart"]
                 /\ UNCHANGED closedCloses
  /\ UNCHANGED <<cur, call, qVars, once, closingCloses, numDispatchersClosed,
                 ctxState, cfgVars, now, msgVars, chanVars>>

\* Start that does not return after the shutdown of a failed gear.Start
StartGear_noReturn ==
  /\ pc[T_start] = "gearStart"
  /\ gear # "nil"
  /\ lock' = Nil
  /\ pc' = [pc EXCEPT ![T_start] = "done", ![T_sync] = "pop",
                      ![T_async] = "pop", ![T_chan] = "select"]
  /\ \E ok \in BOOLEAN, cb \in BOOLEAN :
       IF ok
         THEN /\ hist' = [hist EXCEPT !.gearStarts = @ + 1, !.started = "ok"]
              /\ UNCHANGED closedCloses
         ELSE /\ hist' = [hist EXCEPT !.gearStarts = @ + 1,
                                      !.started = "failed",
                                      !.shutdownRuns = @ + 1]
              /\ closedCloses' = closedCloses + 1
  /\ UNCHANGED <<cur, call, qVars, once, closingCloses, numDispatchersClosed,
                 ctxState, cfgVars, gear, now, msgVars, chanVars>>

\* Start whose failure path goes through closeDispatcher, which takes the
\* lock Start still holds
StartGear_closeDispatcher ==
  /\ pc[T_start] = "gearStart"
  /\ IF gear = "nil"
       THEN /\ pc' = [pc EXCEPT ![T_start] = "panicked"]
            /\ hist' = [hist EXCEPT !.started = "panicked"]
            /\ lock' = Nil
       ELSE \E ok \in BOOLEAN :
              IF ok
                THEN /\ pc' = [pc EXCEPT ![T_start] = "done",
                                         ![T_sync] = "pop",
                                         ![T_async] = "pop",
                                         ![T_chan] = "select"]
                     /\ hist' = [hist EXCEPT !.gearStarts = @ + 1,
                                             !.started = "ok"]
                     /\ lock' = Nil
                ELSE /\ pc' = [pc EXCEPT ![T_start] = "closeDisp"]
                     /\ hist' = [hist EXCEPT !.gearStarts = @ + 1,
                                             !.started = "failed"]
                     /\ UNCHANGED lock
  /\ UNCHANGED <<cur, call, qVars, once, closingCloses, closedCloses,
                 numDispatchersClosed, ctxState, cfgVars, gear, now, msgVars,
                 chanVars>>

\* gear.Start(ctx, 0) returns; on success the three loops are spawned
StartGear ==
  /\ pc[T_start] = "gearStart"
  /\ lock' = Nil
  /\ IF gear = "nil"
       THEN \* a method call on a nil engine panics; the lock is released
            /\ pc' = [pc EXCEPT ![T_start] = "panicked"]
            /\ hist' = [hist EXCEPT !.started = "panicked"]
            /\ UNCHANGED closedCloses
       ELSE \E ok \in BOOLEAN, cb \in OnStoppedSet, serr \in ShutdownErrs :
              IF ok
                THEN /\ pc' = [pc EXCEPT ![T_start] = "done",
                                         ![T_sync] = "pop",
                                         ![T_async] = "pop",
                                         ![T_chan] = "select"]
                     /\ hist' = [hist EXCEPT !.gearStarts = @ + 1,
                                             !.started = "ok"]
                     /\ UNCHANGED closedCloses
                ELSE /\ pc' = [pc EXCEPT ![T_start] = "done"]
                     /\ hist' = shutdownHist(
                          [hist EXCEPT !.gearStarts = @ + 1,
                                       !.started = "failed"], cb, serr)
                     /\ closedCloses' = closedCloses + 1
  /\ UNCHANGED <<cur, call, qVars, once, closingCloses, numDispatchersClosed,
                 ctxState, cfgVars, gear, now, msgVars, chanVars>>

(***************************************************************************)
(* handler.Push with MessageQueue.Push: an open queue appends the message, *)
(* a queue that was shut down drops it and invokes its completion.         *)
(***************************************************************************)
\* inputs the environment has given to the handler so far
Inputs == (nextId - 1) + vmSent + ticks + timers.registered

MainOps == {"PushQuery", "AppRequest"}
Expirations == {0, MaxTime}

MainMsgs ==
  [id : {0}, op : MainOps, node : Nodes, exp : Expirations,
   etype : {"Unspecified"}, valid : {TRUE}, known : {TRUE}]

Push(msg) ==
  LET m == [msg EXCEPT !.id = nextId]
      q == PushQueue(m.op)
  IN /\ Inputs < lim
     \* nodes are interchangeable: the first message comes from the first
     /\ nextId = 1 => msg.node = "n1"
     /\ nextId' = nextId + 1
     /\ routed' = [routed EXCEPT ![m.id] = @ \cup {<<q, m.op>>}]
     /\ IF q = "async"
          THEN /\ asyncQ' = IF asyncClosed THEN asyncQ ELSE Append(asyncQ, m)
               /\ finished' = [finished EXCEPT ![m.id] =
                                 @ + (IF asyncClosed THEN 1 ELSE 0)]
               /\ UNCHANGED syncQ
          ELSE /\ syncQ' = IF syncClosed THEN syncQ ELSE Append(syncQ, m)
               /\ finished' = [finished EXCEPT ![m.id] =
                                 @ + (IF syncClosed THEN 1 ELSE 0)]
               /\ UNCHANGED asyncQ
     /\ UNCHANGED <<pc, cur, call, syncClosed, asyncClosed, lock, shutVars,
                    ctxState, cfgVars, gear, now, delivered, popped,
                    expired, asyncExpired, chanVars, hist>>

(***************************************************************************)
(* handler.Stop and handler.StopWithError.  closeOnce lets the first       *)
(* caller run the body; a caller that arrives while the body runs waits    *)
(* for it to finish; a caller that arrives later returns at once.          *)
(***************************************************************************)
\* AfterStop for a sync loop that goes on popping after StopWithError
AfterStop_resume(t) ==
  IF t = T_sync THEN "pop"
  ELSE IF t = T_chan THEN "closeDisp"
  ELSE IF t \in Workers THEN "idle"
  ELSE "done"

\* where a thread continues when Stop returns
AfterStop(t) ==
  IF t \in {T_sync, T_chan} THEN "closeDisp"
  ELSE IF t \in Workers THEN "idle"
  ELSE "done"

\* Stop whose body is not guarded by closeOnce
StopOnce_unguarded(t) ==
  /\ pc[t] = "stop"
  /\ once' = "running"
  /\ pc' = [pc EXCEPT ![t] = "stopSyncQ"]
  /\ hist' = [hist EXCEPT !.stopBodyRuns = @ + 1]
  /\ UNCHANGED <<cur, call, qVars, lock, closingCloses, closedCloses,
                 numDispatchersClosed, ctxState, cfgVars, gear, now, msgVars,
                 chanVars>>

\* closeOnce.Do
StopOnce(t) ==
  /\ pc[t] = "stop"
  /\ \/ /\ once = "fresh"
        /\ once' = "running"
        /\ pc' = [pc EXCEPT ![t] = "stopSyncQ"]
        /\ hist' = [hist EXCEPT !.stopBodyRuns = @ + 1]
     \/ /\ once = "done"
        /\ pc' = [pc EXCEPT ![t] = AfterStop(t)]
        /\ UNCHANGED <<once, hist>>
  /\ UNCHANGED <<cur, call, qVars, lock, closingCloses, closedCloses,
                 numDispatchersClosed, ctxState, cfgVars, gear, now, msgVars,
                 chanVars>>

\* MessageQueue.Shutdown that throws away what is queued
Shutdown_dropping(q) == <<>>

\* what a queue holds after MessageQueue.Shutdown: the queued items stay,
\* they can be popped until the queue is drained
Shutdown(q) == q

\* h.syncMessageQueue.Shutdown()
StopSyncQ(t) ==
  /\ pc[t] = "stopSyncQ"
  /\ syncClosed' = TRUE
  /\ syncQ' = Shutdown(syncQ)
  /\ pc' = [pc EXCEPT ![t] = "stopAsyncQ"]
  /\ UNCHANGED <<cur, call, asyncQ, asyncClosed, lock, shutVars,
                 ctxState, cfgVars, gear, now, msgVars, chanVars, hist>>

\* h.asyncMessageQueue.Shutdown()
StopAsyncQ(t) ==
  /\ pc[t] = "stopAsyncQ"
  /\ asyncClosed' = TRUE
  /\ asyncQ' = Shutdown(asyncQ)
  /\ pc' = [pc EXCEPT ![t] = "stopClosing"]
  /\ UNCHANGED <<cur, call, syncQ, syncClosed, lock, shutVars,
                 ctxState, cfgVars, gear, now, msgVars, chanVars, hist>>

\* Stop whose body does not close the closing signal
StopClosing_noClose(t) ==
  /\ pc[t] = "stopClosing"
  /\ pc' = [pc EXCEPT ![t] = "stopHalt"]
  /\ UNCHANGED <<cur, call, qVars, lock, shutVars, ctxState, cfgVars, gear,
                 now, msgVars, chanVars, hist>>

\* close(h.closingChan)
StopClosing(t) ==
  /\ pc[t] = "stopClosing"
  /\ closingCloses' = closingCloses + 1
  /\ pc' = [pc EXCEPT ![t] = "stopHalt"]
  /\ UNCHANGED <<cur, call, qVars, lock, once, closedCloses,
                 numDispatchersClosed, ctxState, cfgVars, gear, now, msgVars,
                 chanVars, hist>>

\* Stop that waits for the consensus lock before it halts the Bootstrapper
StopHalt_locked(t) ==
  /\ pc[t] = "stopHalt"
  /\ lock = Nil
  /\ hist' = [hist EXCEPT !.halts =
                @ + (IF HasEngine(reg, ctxState.type, "Bootstrapping")
                     THEN 1 ELSE 0)]
  /\ once' = "done"
  /\ pc' = [pc EXCEPT ![t] = AfterStop(t)]
  /\ UNCHANGED <<cur, call, qVars, lock, closingCloses, closedCloses,
                 numDispatchersClosed, ctxState, cfgVars, gear, now, msgVars,
                 chanVars>>

\* the Bootstrapper of the current engine type is halted, if there is one;
\* the body is over and closeOnce is done
StopHalt(t) ==
  /\ pc[t] = "stopHalt"
  /\ hist' = [hist EXCEPT !.halts =
                @ + (IF HasEngine(reg, ctxState.type, "Bootstrapping")
                     THEN 1 ELSE 0)]
  /\ once' = "done"
  /\ pc' = [pc EXCEPT ![t] = AfterStop(t)]
  /\ UNCHANGED <<cur, call, qVars, lock, closingCloses, closedCloses,
                 numDispatchersClosed, ctxState, cfgVars, gear, now, msgVars,
                 chanVars>>

(***************************************************************************)
(* handler.closeDispatcher, run by each loop when it exits.                *)
(***************************************************************************)
\* closeDispatcher that compares the counter with <= instead of <
closeDispatcher_offByOne(t) ==
  /\ pc[t] = "closeDisp"
  /\ lock = Nil
  /\ numDispatchersClosed' = numDispatchersClosed + 1
  /\ IF numDispatchersClosed + 1 <= numDispatchersToClose
       THEN UNCHANGED <<closedCloses, hist>>
       ELSE /\ closedCloses' = closedCloses + 1
            /\ \E cb \in OnStoppedSet, serr \in ShutdownErrs :
                 hist' = shutdownHist(hist, cb, serr)
  /\ pc' = [pc EXCEPT ![t] = "exited"]
  /\ UNCHANGED <<cur, call, qVars, lock, once, closingCloses, ctxState,
                 cfgVars, gear, now, msgVars, chanVars>>

closeDispatcher(t) ==
  /\ pc[t] = "closeDisp"
  /\ lock = Nil
  /\ numDispatchersClosed' = numDispatchersClosed + 1
  /\ IF numDispatchersClosed + 1 < numDispatchersToClose
       THEN UNCHANGED <<closedCloses, hist>>
       ELSE /\ closedCloses' = closedCloses + 1
            /\ \E cb \in OnStoppedSet, serr \in ShutdownErrs :
                 hist' = shutdownHist(hist, cb, serr)
  /\ pc' = [pc EXCEPT ![t] = "exited"]
  /\ UNCHANGED <<cur, call, qVars, lock, once, closingCloses, ctxState,
                 cfgVars, gear, now, msgVars, chanVars>>

(***************************************************************************)
(* popUnexpiredMsg on a queue: one round of its loop.  A popped message    *)
(* whose deadline has passed is counted, completed and dropped and the     *)
(* loop pops again; Pop fails once the queue is shut down and drained.     *)
(***************************************************************************)
SyncPop ==
  /\ pc[T_sync] = "pop"
  /\ \/ \E i \in Poppable(syncQ) :
          LET m == syncQ[i] IN
          /\ syncQ' = Without(syncQ, i)
          /\ popped' = [popped EXCEPT ![m.id] =
                          IF now > m.exp THEN "late" ELSE "intime"]
          /\ IF Expired(m, now)
               THEN /\ expired' = expired + 1
                    /\ finished' = [finished EXCEPT ![m.id] = @ + 1]
                    /\ UNCHANGED <<pc, cur>>
               ELSE /\ pc' = [pc EXCEPT ![T_sync] = "lock"]
                    /\ cur' = [cur EXCEPT ![T_sync] = m]
                    /\ UNCHANGED <<expired, finished>>
     \/ /\ syncQ = <<>>
        /\ syncClosed
        /\ pc' = [pc EXCEPT ![T_sync] = "closeDisp"]
        /\ UNCHANGED <<syncQ, cur, expired, finished, popped>>
  /\ UNCHANGED <<call, asyncQ, syncClosed, asyncClosed, lock, shutVars,
                 ctxState, cfgVars, gear, now, nextId, routed, delivered,
                 asyncExpired, chanVars, hist>>

AsyncPop ==
  /\ pc[T_async] = "pop"
  /\ \/ \E i \in Poppable(asyncQ) :
          LET m == asyncQ[i] IN
          /\ asyncQ' = Without(asyncQ, i)
          /\ popped' = [popped EXCEPT ![m.id] =
                          IF now > m.exp THEN "late" ELSE "intime"]
          /\ IF Expired(m, now)
               THEN /\ asyncExpired' = asyncExpired + 1
                    /\ finished' = [finished EXCEPT ![m.id] = @ + 1]
                    /\ UNCHANGED <<pc, cur>>
               ELSE /\ pc' = [pc EXCEPT ![T_async] = "send"]
                    /\ cur' = [cur EXCEPT ![T_async] = m]
                    /\ UNCHANGED <<asyncExpired, finished>>
     \/ /\ asyncQ = <<>>
        /\ asyncClosed
        /\ pc' = [pc EXCEPT ![T_async] = "poolShutdown"]
        /\ UNCHANGED <<asyncQ, cur, asyncExpired, finished, popped>>
  /\ UNCHANGED <<call, syncQ, syncClosed, asyncClosed, lock, shutVars,
                 ctxState, cfgVars, gear, now, nextId, routed, delivered,
                 expired, chanVars, hist>>

(***************************************************************************)
(* What a loop or a pool task does with the result of handling a message:  *)
(* on nil it goes on, on an error it calls StopWithError and ends.         *)
(***************************************************************************)
\* the error of a handled message is ignored
AfterHandling_ignoreErr(t, ok) ==
  IF t = T_sync THEN "pop"
  ELSE IF t = T_chan THEN "select"
  ELSE "idle"

AfterHandling(t, ok) ==
  IF ~ok THEN "stop"
  ELSE IF t = T_sync THEN "pop"
  ELSE IF t = T_chan THEN "select"
  ELSE "idle"

(***************************************************************************)
(* The calls of the ResourceTracker, recorded for each message in the      *)
(* order they are made (internal messages have identity 0).                *)
(***************************************************************************)
StartProcessing(h, m) ==
  [h EXCEPT !.proc[m.id] = Append(@, <<"StartProcessing", m.node>>)]

\* a handler that does not report the end of the processing
StopProcessing_skipped(h, m) == h

StopProcessing(h, m) ==
  [h EXCEPT !.proc[m.id] = Append(@, <<"StopProcessing", m.node>>)]

(***************************************************************************)
(* The sync loop: handleSyncMsg takes the consensus lock, resolves the     *)
(* engine and calls it; when the call returns the lock is released and     *)
(* the completion runs; an error goes to StopWithError and ends the loop.  *)
(***************************************************************************)
SyncLock ==
  /\ pc[T_sync] = "lock"
  /\ lock = Nil
  /\ LET m == cur[T_sync]
         r == handleSyncMsg(m, ctxState, reg)
     IN CASE r.kind = "drop" ->
               /\ hist' = StopProcessing(StartProcessing(hist, m), m)
               /\ finished' = [finished EXCEPT ![m.id] = @ + 1]
               /\ pc' = [pc EXCEPT ![T_sync] = "pop"]
               /\ cur' = [cur EXCEPT ![T_sync] = NoMsg]
               /\ UNCHANGED <<lock, call, delivered>>
          [] r.kind = "error" ->
               /\ hist' = StopProcessing(StartProcessing(hist, m), m)
               /\ finished' = [finished EXCEPT ![m.id] = @ + 1]
               /\ pc' = [pc EXCEPT ![T_sync] = "stop"]
               /\ cur' = [cur EXCEPT ![T_sync] = NoMsg]
               /\ UNCHANGED <<lock, call, delivered>>
          [] OTHER ->
               /\ hist' = StartProcessing(hist, m)
               /\ lock' = T_sync
               /\ pc' = [pc EXCEPT ![T_sync] = "engine"]
               /\ call' = [call EXCEPT ![T_sync] = <<r.etype, r.method>>]
               /\ delivered' = [delivered EXCEPT ![m.id] =
                                  Append(@, <<r.etype, r.method>>)]
               /\ UNCHANGED <<cur, finished>>
  /\ UNCHANGED <<qVars, shutVars, ctxState, cfgVars, gear, now, nextId,
                 routed, popped, expired, asyncExpired, chanVars>>

\* handleSyncMsg whose error reaches StopWithError before the deferred
\* function has released the lock
SyncReturn_stopUnderLock ==
  /\ pc[T_sync] = "engine"
  /\ \E ok \in BOOLEAN :
       /\ pc' = [pc EXCEPT ![T_sync] = AfterHandling(T_sync, ok)]
       /\ hist' = StopProcessing(
                    [hist EXCEPT
                       !.syncEngineErr =
                          @ \/ (~ok /\ call[T_sync][1] \in Types),
                       !.connectorErr =
                          @ \/ (~ok /\ call[T_sync][1] \notin Types),
                       !.engineErr = @ \/ ~ok], cur[T_sync])
  /\ lock' = IF pc'[T_sync] = "stop" THEN T_sync ELSE Nil
  /\ call' = [call EXCEPT ![T_sync] = NoCall]
  /\ finished' = [finished EXCEPT ![cur[T_sync].id] = @ + 1]
  /\ cur' = [cur EXCEPT ![T_sync] = NoMsg]
  /\ UNCHANGED <<qVars, shutVars, ctxState, cfgVars, gear, now, nextId,
                 routed, delivered, popped, expired, asyncExpired,
                 chanVars>>

SyncReturn ==
  /\ pc[T_sync] = "engine"
  /\ \E ok \in BOOLEAN :
       /\ pc' = [pc EXCEPT ![T_sync] = AfterHandling(T_sync, ok)]
       /\ hist' = StopProcessing(
                    [hist EXCEPT
                       !.syncEngineErr =
                          @ \/ (~ok /\ call[T_sync][1] \in Types),
                       !.connectorErr =
                          @ \/ (~ok /\ call[T_sync][1] \notin Types),
                       !.engineErr = @ \/ ~ok], cur[T_sync])
  /\ lock' = Nil
  /\ call' = [call EXCEPT ![T_sync] = NoCall]
  /\ finished' = [finished EXCEPT ![cur[T_sync].id] = @ + 1]
  /\ cur' = [cur EXCEPT ![T_sync] = NoMsg]
  /\ UNCHANGED <<qVars, shutVars, ctxState, cfgVars, gear, now, nextId,
                 routed, delivered, popped, expired, asyncExpired,
                 chanVars>>

(***************************************************************************)
(* The async loop: handleAsyncMsg sends a task to the worker pool (Send    *)
(* waits for a free worker); on exit the pool is shut down, which waits    *)
(* for the tasks in flight, and then the loop reports itself closed.       *)
(***************************************************************************)
IdleWorkers == {w \in Workers : pc[w] = "idle"}

\* workers are interchangeable: the free worker of least index takes the task
FreeWorker == CHOOSE w \in IdleWorkers : \A v \in IdleWorkers : w[2] <= v[2]

handleAsyncMsg ==
  /\ pc[T_async] = "send"
  /\ IdleWorkers # {}
  /\ pc' = [pc EXCEPT ![T_async] = "pop", ![FreeWorker] = "ready"]
  /\ cur' = [cur EXCEPT ![T_async] = NoMsg, ![FreeWorker] = cur[T_async]]
  /\ UNCHANGED <<call, qVars, lock, shutVars, ctxState, cfgVars, gear, now,
                 msgVars, chanVars, hist>>

\* dispatchAsync that reports itself closed without shutting the pool down
AsyncPoolShutdown_noWait ==
  /\ pc[T_async] = "poolShutdown"
  /\ pc' = [pc EXCEPT ![T_async] = "closeDisp"]
  /\ UNCHANGED <<cur, call, qVars, lock, shutVars, ctxState, cfgVars, gear,
                 now, msgVars, chanVars, hist>>

\* dispatchAsync that shuts the pool down and goes on with its loop
AsyncPoolShutdown_resume ==
  /\ pc[T_async] = "poolShutdown"
  /\ \A w \in Workers : pc[w] = "idle"
  /\ pc' = [pc EXCEPT ![T_async] = "pop"]
  /\ hist' = [hist EXCEPT !.poolShutdowns = @ + 1]
  /\ UNCHANGED <<cur, call, qVars, lock, shutVars, ctxState, cfgVars, gear,
                 now, msgVars, chanVars>>

\* h.asyncMessagePool.Shutdown() in the deferred function of dispatchAsync
AsyncPoolShutdown ==
  /\ pc[T_async] = "poolShutdown"
  /\ \A w \in Workers : pc[w] = "idle"
  /\ pc' = [pc EXCEPT ![T_async] = "closeDisp"]
  /\ hist' = [hist EXCEPT !.poolShutdowns = @ + 1]
  /\ UNCHANGED <<cur, call, qVars, lock, shutVars, ctxState, cfgVars, gear,
                 now, msgVars, chanVars>>

\* executeAsyncMsg that waits for the consensus lock before it calls the engine
WorkerExec_locked(w) ==
  /\ pc[w] = "ready"
  /\ lock = Nil
  /\ LET m == cur[w]
         r == executeAsyncMsg(m, ctxState, reg)
     IN IF r.kind = "error"
          THEN /\ hist' = StopProcessing(StartProcessing(hist, m), m)
               /\ finished' = [finished EXCEPT ![m.id] = @ + 1]
               /\ pc' = [pc EXCEPT ![w] = "stop"]
               /\ cur' = [cur EXCEPT ![w] = NoMsg]
               /\ UNCHANGED <<call, delivered>>
          ELSE /\ hist' = StartProcessing(hist, m)
               /\ pc' = [pc EXCEPT ![w] = "engine"]
               /\ call' = [call EXCEPT ![w] = <<r.etype, r.method>>]
               /\ delivered' = [delivered EXCEPT ![m.id] =
                                  Append(@, <<r.etype, r.method>>)]
               /\ UNCHANGED <<cur, finished>>
  /\ UNCHANGED <<qVars, lock, shutVars, ctxState, cfgVars, gear, now, nextId,
                 routed, popped, expired, asyncExpired, chanVars>>

\* the task: executeAsyncMsg up to the engine call, without the lock
WorkerExec(w) ==
  /\ pc[w] = "ready"
  /\ LET m == cur[w]
         r == executeAsyncMsg(m, ctxState, reg)
     IN IF r.kind = "error"
          THEN /\ hist' = StopProcessing(StartProcessing(hist, m), m)
               /\ finished' = [finished EXCEPT ![m.id] = @ + 1]
               /\ pc' = [pc EXCEPT ![w] = "stop"]
               /\ cur' = [cur EXCEPT ![w] = NoMsg]
               /\ UNCHANGED <<call, delivered>>
          ELSE /\ hist' = StartProcessing(hist, m)
               /\ pc' = [pc EXCEPT ![w] = "engine"]
               /\ call' = [call EXCEPT ![w] = <<r.etype, r.method>>]
               /\ delivered' = [delivered EXCEPT ![m.id] =
                                  Append(@, <<r.etype, r.method>>)]
               /\ UNCHANGED <<cur, finished>>
  /\ UNCHANGED <<qVars, lock, shutVars, ctxState, cfgVars, gear, now, nextId,
                 routed, popped, expired, asyncExpired, chanVars>>

WorkerReturn(w) ==
  /\ w \in Workers
  /\ pc[w] = "engine"
  /\ \E ok \in BOOLEAN :
       /\ pc' = [pc EXCEPT ![w] = AfterHandling(w, ok)]
       /\ hist' = StopProcessing([hist EXCEPT !.engineErr = @ \/ ~ok],
                                 cur[w])
  /\ call' = [call EXCEPT ![w] = NoCall]
  /\ finished' = [finished EXCEPT ![cur[w].id] = @ + 1]
  /\ cur' = [cur EXCEPT ![w] = NoMsg]
  /\ UNCHANGED <<qVars, lock, shutVars, ctxState, cfgVars, gear, now, nextId,
                 routed, delivered, popped, expired, asyncExpired,
                 chanVars>>

(***************************************************************************)
(* The sources of the chan loop: the VM, the RegisterTimeout goroutines.   *)
(***************************************************************************)
VMNotify ==
  /\ vmSent < MaxVM
  /\ Inputs < lim
  /\ vmSent' = vmSent + 1
  /\ vmChan' = vmChan + 1
  /\ UNCHANGED <<pc, cur, call, qVars, lock, shutVars, ctxState, cfgVars,
                 gear, now, msgVars, ticks, timeouts, timers, wakeVars,
                 chanCalls,
                 hist>>

\* RegisterTimeout spawns a goroutine that waits for its timer
RegisterTimeout ==
  /\ timers.registered < MaxTimers
  /\ Inputs < lim
  /\ timers' = [timers EXCEPT !.registered = @ + 1, !.waiting = @ + 1]
  /\ UNCHANGED <<pc, cur, call, qVars, lock, shutVars, ctxState, cfgVars,
                 gear, now, msgVars, vmChan, vmSent, ticks, timeouts,
                 wakeVars, chanCalls, hist>>

\* the duration of a waiting goroutine's timer elapses: timer.C holds its
\* tick
TimerElapse ==
  /\ timerC < timers.waiting
  /\ timerC' = timerC + 1
  /\ UNCHANGED <<pc, cur, call, qVars, lock, shutVars, ctxState, cfgVars,
                 gear, now, msgVars, vmChan, vmSent, ticks, timeouts, timers,
                 preemptTimeouts, chanCalls, hist>>

\* the subnet closes the channel OnBootstrapCompleted returned, the one New
\* stored as preemptTimeouts
Preempt ==
  /\ ~preemptTimeouts
  /\ preemptTimeouts' = TRUE
  /\ UNCHANGED <<pc, cur, call, qVars, lock, shutVars, ctxState, cfgVars,
                 gear, now, msgVars, vmChan, vmSent, ticks, timeouts, timers,
                 timerC, chanCalls, hist>>

\* a goroutine that waits for its timer only
TimerWake_timerOnly(elapsed) ==
  /\ timers.waiting > 0
  /\ elapsed
  /\ timerC > 0
  /\ timerC' = timerC - 1
  /\ UNCHANGED preemptTimeouts

\* the first select of the goroutine: it receives its timer's tick
\* (elapsed), or it receives from the closed preemptTimeouts while its timer
\* is still running
TimerWake(elapsed) ==
  /\ timers.waiting > 0
  /\ IF elapsed
       THEN /\ timerC > 0
            /\ timerC' = timerC - 1
       ELSE /\ preemptTimeouts
            /\ timerC < timers.waiting
            /\ UNCHANGED timerC
  /\ UNCHANGED preemptTimeouts

\* what a returning goroutine adds to the observations: whether it went on
\* through preemptTimeouts, and whether it dropped its timeout after the
\* chan loop had exited
timerHist(h, elapsed) ==
  [h EXCEPT !.preemptWakes = @ + (IF elapsed THEN 0 ELSE 1),
            !.droppedAfterExit =
               @ \/ (timeouts # 0 /\ pc[T_chan] = "exited")]

\* a woken goroutine always puts its timeout in the channel, as a send on a
\* channel with room for every timer would
TimerFire_buffered ==
  /\ \E elapsed \in BOOLEAN :
       /\ TimerWake(elapsed)
       /\ hist' = timerHist(hist, elapsed)
  /\ timeouts' = timeouts + 1
  /\ timers' = [timers EXCEPT !.waiting = @ - 1]
  /\ UNCHANGED <<pc, cur, call, qVars, lock, shutVars, ctxState, cfgVars,
                 gear, now, msgVars, vmChan, vmSent, ticks, chanCalls>>

\* a woken goroutine whose send waits for room in the channel
TimerFire_blocking ==
  /\ \E elapsed \in BOOLEAN :
       /\ TimerWake(elapsed)
       /\ hist' = timerHist(hist, elapsed)
  /\ timeouts = 0
  /\ timeouts' = 1
  /\ timers' = [timers EXCEPT !.waiting = @ - 1]
  /\ UNCHANGED <<pc, cur, call, qVars, lock, shutVars, ctxState, cfgVars,
                 gear, now, msgVars, vmChan, vmSent, ticks, chanCalls>>

\* the timer (or preemptTimeouts) fires: a send that does not block, dropped
\* when a timeout is already waiting in the channel; the goroutine returns
TimerFire ==
  /\ \E elapsed \in BOOLEAN :
       /\ TimerWake(elapsed)
       /\ hist' = timerHist(hist, elapsed)
  /\ IF timeouts = 0
       THEN /\ timeouts' = 1
            /\ timers' = [timers EXCEPT !.waiting = @ - 1]
       ELSE /\ timers' = [timers EXCEPT !.waiting = @ - 1,
                                        !.coalesced = @ + 1]
            /\ UNCHANGED timeouts
  /\ UNCHANGED <<pc, cur, call, qVars, lock, shutVars, ctxState, cfgVars,
                 gear, now, msgVars, vmChan, vmSent, ticks, chanCalls>>

(***************************************************************************)
(* The chan loop: the select of dispatchChans takes any ready case.        *)
(***************************************************************************)
ChanMsg(op) == [NoMsg EXCEPT !.op = op]

\* a closing signal that only a loop waiting while Stop runs can see
ChanSelect_signalOnce ==
  /\ pc[T_chan] = "select"
  /\ \/ /\ closingCloses > 0
        /\ once = "running"
        /\ pc' = [pc EXCEPT ![T_chan] = "closeDisp"]
        /\ UNCHANGED <<cur, vmChan, ticks, timeouts>>
     \/ /\ vmChan > 0
        /\ vmChan' = vmChan - 1
        /\ cur' = [cur EXCEPT ![T_chan] = ChanMsg("Notify")]
        /\ pc' = [pc EXCEPT ![T_chan] = "lock"]
        /\ UNCHANGED <<ticks, timeouts>>
     \/ /\ ticks < MaxGossip
        /\ Inputs < lim
        /\ ticks' = ticks + 1
        /\ cur' = [cur EXCEPT ![T_chan] = ChanMsg("GossipRequest")]
        /\ pc' = [pc EXCEPT ![T_chan] = "lock"]
        /\ UNCHANGED <<vmChan, timeouts>>
     \/ /\ timeouts > 0
        /\ timeouts' = 0
        /\ cur' = [cur EXCEPT ![T_chan] = ChanMsg("Timeout")]
        /\ pc' = [pc EXCEPT ![T_chan] = "lock"]
        /\ UNCHANGED <<vmChan, ticks>>
  /\ UNCHANGED <<call, qVars, lock, shutVars, ctxState, cfgVars, gear, now,
                 msgVars, vmSent, timers, wakeVars, chanCalls, hist>>

ChanSelect ==
  /\ pc[T_chan] = "select"
  /\ \/ /\ closingCloses > 0
        /\ pc' = [pc EXCEPT ![T_chan] = "closeDisp"]
        /\ UNCHANGED <<cur, vmChan, ticks, timeouts>>
     \/ /\ vmChan > 0
        /\ vmChan' = vmChan - 1
        /\ cur' = [cur EXCEPT ![T_chan] = ChanMsg("Notify")]
        /\ pc' = [pc EXCEPT ![T_chan] = "lock"]
        /\ UNCHANGED <<ticks, timeouts>>
     \/ /\ ticks < MaxGossip
        /\ Inputs < lim
        /\ ticks' = ticks + 1
        /\ cur' = [cur EXCEPT ![T_chan] = ChanMsg("GossipRequest")]
        /\ pc' = [pc EXCEPT ![T_chan] = "lock"]
        /\ UNCHANGED <<vmChan, timeouts>>
     \/ /\ timeouts > 0
        /\ timeouts' = 0
        /\ cur' = [cur EXCEPT ![T_chan] = ChanMsg("Timeout")]
        /\ pc' = [pc EXCEPT ![T_chan] = "lock"]
        /\ UNCHANGED <<vmChan, ticks>>
  /\ UNCHANGED <<call, qVars, lock, shutVars, ctxState, cfgVars, gear, now,
                 msgVars, vmSent, timers, wakeVars, chanCalls, hist>>

\* handleChanMsg that calls the engine without taking the consensus lock
ChanLock_noLock ==
  /\ pc[T_chan] = "lock"
  /\ LET calls == handleChanMsg(cur[T_chan].op, ctxState, reg)
     IN IF calls = <<>>
          THEN /\ pc' = [pc EXCEPT ![T_chan] = "stop"]
               /\ cur' = [cur EXCEPT ![T_chan] = NoMsg]
               /\ hist' = [hist EXCEPT !.chanFinished = @ + 1]
               /\ UNCHANGED <<lock, call, chanCalls>>
          ELSE /\ UNCHANGED lock
               /\ pc' = [pc EXCEPT ![T_chan] = "engine"]
               /\ cur' = [cur EXCEPT ![T_chan].etype = ctxState.type]
               /\ call' = [call EXCEPT ![T_chan] = Head(calls)]
               /\ chanCalls' = Append(chanCalls, Head(calls))
               /\ hist' = [hist EXCEPT !.oldGossips =
                             @ + (IF Len(calls) > 1 THEN 1 ELSE 0)]
  /\ UNCHANGED <<qVars, shutVars, ctxState, cfgVars, gear, now, msgVars,
                 vmChan, vmSent, ticks, timeouts, timers, wakeVars>>

\* handleChanMsg that gossips the Avalanche engine of a linearized chain for
\* the first gossip request only
ChanLock_oldGossipOnce ==
  /\ pc[T_chan] = "lock"
  /\ lock = Nil
  /\ LET all == handleChanMsg(cur[T_chan].op, ctxState, reg)
         calls == IF Len(all) > 1 /\ hist.oldGossips > 0
                    THEN Tail(all) ELSE all
     IN IF calls = <<>>
          THEN /\ pc' = [pc EXCEPT ![T_chan] = "stop"]
               /\ cur' = [cur EXCEPT ![T_chan] = NoMsg]
               /\ hist' = [hist EXCEPT !.chanFinished = @ + 1]
               /\ UNCHANGED <<lock, call, chanCalls>>
          ELSE /\ lock' = T_chan
               /\ pc' = [pc EXCEPT ![T_chan] = "engine"]
               /\ cur' = [cur EXCEPT ![T_chan].etype = ctxState.type]
               /\ call' = [call EXCEPT ![T_chan] = Head(calls)]
               /\ chanCalls' = Append(chanCalls, Head(calls))
               /\ hist' = [hist EXCEPT !.oldGossips =
                             @ + (IF Len(calls) > 1 THEN 1 ELSE 0)]
  /\ UNCHANGED <<qVars, shutVars, ctxState, cfgVars, gear, now, msgVars,
                 vmChan, vmSent, ticks, timeouts, timers, wakeVars>>

\* handleChanMsg up to its first engine call; cur.etype keeps the engine
\* type read from the state under the lock
ChanLock ==
  /\ pc[T_chan] = "lock"
  /\ lock = Nil
  /\ LET calls == handleChanMsg(cur[T_chan].op, ctxState, reg)
     IN IF calls = <<>>
          THEN \* the lock is taken and released, the completion runs
               /\ pc' = [pc EXCEPT ![T_chan] = "stop"]
               /\ cur' = [cur EXCEPT ![T_chan] = NoMsg]
               /\ hist' = [hist EXCEPT !.chanFinished = @ + 1]
               /\ UNCHANGED <<lock, call, chanCalls>>
          ELSE /\ lock' = T_chan
               /\ pc' = [pc EXCEPT ![T_chan] = "engine"]
               /\ cur' = [cur EXCEPT ![T_chan].etype = ctxState.type]
               /\ call' = [call EXCEPT ![T_chan] = Head(calls)]
               /\ chanCalls' = Append(chanCalls, Head(calls))
               /\ hist' = [hist EXCEPT !.oldGossips =
                             @ + (IF Len(calls) > 1 THEN 1 ELSE 0)]
  /\ UNCHANGED <<qVars, shutVars, ctxState, cfgVars, gear, now, msgVars,
                 vmChan, vmSent, ticks, timeouts, timers, wakeVars>>

\* handleChanMsg whose deferred function runs the completion of the message
\* before it unlocks
ChanReturn_finishFirst ==
  /\ pc[T_chan] = "engine"
  /\ \E ok \in BOOLEAN :
       IF /\ ok
          /\ call[T_chan] = <<"Avalanche", "Gossip">>
          /\ cur[T_chan].etype = "Snowman"
         THEN /\ call' = [call EXCEPT ![T_chan] = <<"Snowman", "Gossip">>]
              /\ chanCalls' = Append(chanCalls, <<"Snowman", "Gossip">>)
              /\ UNCHANGED <<pc, cur, lock, hist>>
         ELSE /\ lock' = Nil
              /\ call' = [call EXCEPT ![T_chan] = NoCall]
              /\ cur' = [cur EXCEPT ![T_chan] = NoMsg]
              /\ pc' = [pc EXCEPT ![T_chan] = AfterHandling(T_chan, ok)]
              /\ hist' = [hist EXCEPT
                            !.engineErr = @ \/ ~ok,
                            !.chanFinished = @ + 1,
                            !.finishedLocked = @ \/ (lock = T_chan)]
              /\ UNCHANGED chanCalls
  /\ UNCHANGED <<qVars, shutVars, ctxState, cfgVars, gear, now, msgVars,
                 vmChan, vmSent, ticks, timeouts, timers, wakeVars>>

\* an engine call of handleChanMsg returns; after the Gossip of the
\* Avalanche engine of a linearized chain comes the Gossip of the engine.
\* The deferred function unlocks and then runs the completion of the
\* message, which finds the lock as the unlock left it.
ChanReturn ==
  /\ pc[T_chan] = "engine"
  /\ \E ok \in BOOLEAN :
       IF /\ ok
          /\ call[T_chan] = <<"Avalanche", "Gossip">>
          /\ cur[T_chan].etype = "Snowman"
         THEN /\ call' = [call EXCEPT ![T_chan] = <<"Snowman", "Gossip">>]
              /\ chanCalls' = Append(chanCalls, <<"Snowman", "Gossip">>)
              /\ UNCHANGED <<pc, cur, lock, hist>>
         ELSE /\ lock' = Nil
              /\ call' = [call EXCEPT ![T_chan] = NoCall]
              /\ cur' = [cur EXCEPT ![T_chan] = NoMsg]
              /\ pc' = [pc EXCEPT ![T_chan] = AfterHandling(T_chan, ok)]
              /\ hist' = [hist EXCEPT
                            !.engineErr = @ \/ ~ok,
                            !.chanFinished = @ + 1,
                            !.finishedLocked = @ \/ (lock' = T_chan)]
              /\ UNCHANGED chanCalls
  /\ UNCHANGED <<qVars, shutVars, ctxState, cfgVars, gear, now, msgVars,
                 vmChan, vmSent, ticks, timeouts, timers, wakeVars>>

(***************************************************************************)
(* The specification.                                                      *)
(***************************************************************************)
Next ==
  \/ Tick
  \/ Transition
  \/ StartSelect
  \/ StartGear
  \/ \E m \in MainMsgs : Push(m)
  \/ \E t \in Threads : StopOnce(t)
  \/ \E t \in Threads : StopSyncQ(t)
  \/ \E t \in Threads : StopAsyncQ(t)
  \/ \E t \in Threads : StopClosing(t)
  \/ \E t \in Threads : StopHalt(t)
  \/ \E t \in Threads : closeDispatcher(t)
  \/ SyncPop
  \/ SyncLock
  \/ SyncReturn
  \/ AsyncPop
  \/ handleAsyncMsg
  \/ AsyncPoolShutdown
  \/ \E w \in Workers : WorkerExec(w)
  \/ \E w \in Workers : WorkerReturn(w)
  \/ VMNotify
  \/ RegisterTimeout
  \/ TimerElapse
  \/ TimerFire
  \/ ChanSelect
  \/ ChanLock
  \/ ChanReturn

Spec == Init /\ [][Next]_vars

(***************************************************************************)
(* The specification of Push alone, over every operation kind: messages    *)
(* are pushed while an external caller may run Stop.                       *)
(***************************************************************************)
AllMsgs ==
  [id : {0}, op : AllOps, node : Nodes, exp : Expirations,
   etype : {"Unspecified"}, valid : {TRUE}, known : {TRUE}]

PushNext ==
  \/ \E m \in AllMsgs : Push(m)
  \/ \E t \in Stoppers : StopOnce(t)
  \/ \E t \in Stoppers : StopSyncQ(t)
  \/ \E t \in Stoppers : StopAsyncQ(t)
  \/ \E t \in Stoppers : StopClosing(t)
  \/ \E t \in Stoppers : StopHalt(t)

PushSpec == Init /\ [][PushNext]_vars

(***************************************************************************)
(* The specification of the sync path over every payload handleSyncMsg has *)
(* a case for: each with every value of EngineType a peer may send (the    *)
(* two engine types, unspecified, and a value outside the enumeration) and *)
(* with a payload that decodes or does not.  The handler runs as in Spec;  *)
(* the environment pushes sync messages and external callers may Stop.     *)
(***************************************************************************)
EngineTypeValues == {"Unspecified", "Avalanche", "Snowman", "Invalid"}

SyncMsgs ==
  [id : {0}, op : SyncOps, node : {"n1"}, exp : {MaxTime},
   etype : EngineTypeValues, valid : BOOLEAN, known : {TRUE}]

SyncInit == InitWith(SyncInputs)

SyncNext ==
  \/ Transition
  \/ StartSelect
  \/ StartGear
  \/ \E m \in SyncMsgs : Push(m)
  \/ \E t \in Threads : StopOnce(t)
  \/ \E t \in Threads : StopSyncQ(t)
  \/ \E t \in Threads : StopAsyncQ(t)
  \/ \E t \in Threads : StopClosing(t)
  \/ \E t \in Threads : StopHalt(t)
  \/ \E t \in Threads : closeDispatcher(t)
  \/ SyncPop
  \/ SyncLock
  \/ SyncReturn
  \/ AsyncPop
  \/ AsyncPoolShutdown
  \/ ChanSelect
  \/ ChanLock
  \/ ChanReturn

SyncSpec == SyncInit /\ [][SyncNext]_vars

(***************************************************************************)
(* The specification of the order of delivery: peers push query messages   *)
(* that do not expire (the clock stands still), before or after Start, and *)
(* the sync loop delivers them.                                            *)
(***************************************************************************)
OrderMsgs ==
  [id : {0}, op : {"PushQuery"}, node : Nodes, exp : {MaxTime},
   etype : {"Unspecified"}, valid : {TRUE}, known : {TRUE}]

OrderInit == InitWith(OrderInputs)

OrderNext ==
  \/ Transition
  \/ StartSelect
  \/ StartGear
  \/ \E m \in OrderMsgs : Push(m)
  \/ SyncPop
  \/ SyncLock
  \/ SyncReturn

OrderSpec == OrderInit /\ [][OrderNext]_vars

(***************************************************************************)
(* The specification of the default cases: the handler runs as in Spec     *)
(* and peers push sync and async messages, some of them with a payload     *)
(* whose type no case of the switch matches (the operation kind decides    *)
(* the queue, the type of the payload decides the case).                   *)
(***************************************************************************)
UnhandledOps == {"AppGossip", "Chits"}

UnhandledMsgs ==
  {m \in [id : {0}, op : UnhandledOps \cup {"AppRequest", "PushQuery"},
          node : {"n1"}, exp : {MaxTime}, etype : {"Unspecified"},
          valid : {TRUE}, known : BOOLEAN] :
     m.known <=> m.op \notin UnhandledOps}

UnhandledInit == InitWith(UnhandledInputs)

UnhandledNext ==
  \/ Transition
  \/ StartSelect
  \/ StartGear
  \/ \E m \in UnhandledMsgs : Push(m)
  \/ \E t \in Threads : StopOnce(t)
  \/ \E t \in Threads : StopSyncQ(t)
  \/ \E t \in Threads : StopAsyncQ(t)
  \/ \E t \in Threads : StopClosing(t)
  \/ \E t \in Threads : StopHalt(t)
  \/ \E t \in Threads : closeDispatcher(t)
  \/ SyncPop
  \/ SyncLock
  \/ SyncReturn
  \/ AsyncPop
  \/ handleAsyncMsg
  \/ AsyncPoolShutdown
  \/ \E w \in Workers : WorkerExec(w)
  \/ \E w \in Workers : WorkerReturn(w)
  \/ ChanSelect
  \/ ChanLock
  \/ ChanReturn

UnhandledSpec == UnhandledInit /\ [][UnhandledNext]_vars

(***************************************************************************)
(* The specification of the default validator set: the functions of the    *)
(* package are called one after the other, in any order, with any          *)
(* arguments and in any environment.                                       *)
(***************************************************************************)
ValidatorNext ==
  \/ InitializeDefaultValidators
  \/ DefaultValidatorList
  \/ IsDefaultValidator
  \/ ExpiredDefaultValidators

ValidatorSpec == Init /\ [][ValidatorNext]_vars

(***************************************************************************)
(* The specification of the RegisterTimeout goroutines: the handler is     *)
(* started and stopped and its loops run without messages, while           *)
(* RegisterTimeout is called and the subnet may close preemptTimeouts.     *)
(* Time passes, so a running timer elapses, and the Go scheduler runs a    *)
(* goroutine whose select has a ready case: these two steps are weakly     *)
(* fair.  Nothing else is obliged to happen.                               *)
(***************************************************************************)
TimerInit == InitWith(TimerInputs)

TimerNext ==
  \/ Transition
  \/ StartSelect
  \/ StartGear
  \/ \E t \in Threads : StopOnce(t)
  \/ \E t \in Threads : StopSyncQ(t)
  \/ \E t \in Threads : StopAsyncQ(t)
  \/ \E t \in Threads : StopClosing(t)
  \/ \E t \in Threads : StopHalt(t)
  \/ \E t \in Threads : closeDispatcher(t)
  \/ SyncPop
  \/ AsyncPop
  \/ AsyncPoolShutdown
  \/ RegisterTimeout
  \/ TimerElapse
  \/ Preempt
  \/ TimerFire
  \/ ChanSelect
  \/ ChanLock
  \/ ChanReturn

TimerFairness == WF_vars(TimerElapse) /\ WF_vars(TimerFire)

TimerSpec == TimerInit /\ [][TimerNext]_vars /\ TimerFairness

(***************************************************************************)
(* The specification of Start over every engine registry: each engine type *)
(* has no Engines value or one with any of the three engines set, and the  *)
(* chain is created with either type in any lifecycle state.  Start runs   *)
(* while an external caller may run Stop.                                  *)
(***************************************************************************)
GearConfigs ==
  {<<r, st>> :
     r \in [Types -> {NoEngines} \cup {Engines(S) : S \in SUBSET States}],
     st \in [type : Types, state : States]}

GearInit == InitFrom(GearConfigs, 0)

GearNext ==
  \/ StartSelect
  \/ StartGear
  \/ \E t \in Stoppers : StopOnce(t)
  \/ \E t \in Stoppers : StopSyncQ(t)
  \/ \E t \in Stoppers : StopAsyncQ(t)
  \/ \E t \in Stoppers : StopClosing(t)
  \/ \E t \in Stoppers : StopHalt(t)

GearSpec == GearInit /\ [][GearNext]_vars

(***************************************************************************)
(* The fair specification.  The threads of the handler are scheduled       *)
(* fairly and every engine call returns.  The consensus lock is a mutex    *)
(* that lets no waiter starve, and a select with several ready cases picks *)
(* one at random, so it does not avoid the closing signal forever: these   *)
(* steps are strongly fair.  Nothing obliges the environment to call       *)
(* Start, Stop, Push or RegisterTimeout.                                   *)
(***************************************************************************)
LiveInit == InitWith(LiveInputs)

ChanSelectClosing == ChanSelect /\ pc'[T_chan] = "closeDisp"

\* a step of the body of Stop; one thread at most is inside the body
StopBody ==
  \E t \in Threads :
    StopSyncQ(t) \/ StopAsyncQ(t) \/ StopClosing(t) \/ StopHalt(t)

Fairness ==
  /\ WF_vars(StartGear)
  /\ WF_vars(\E t \in Threads \ Stoppers : StopOnce(t))
  /\ WF_vars(StopBody)
  /\ SF_vars(\E t \in Threads : closeDispatcher(t))
  /\ WF_vars(SyncPop)
  /\ SF_vars(SyncLock)
  /\ WF_vars(SyncReturn)
  /\ WF_vars(AsyncPop)
  /\ WF_vars(handleAsyncMsg)
  /\ WF_vars(AsyncPoolShutdown)
  /\ WF_vars(\E w \in Workers : WorkerExec(w))
  /\ WF_vars(\E w \in Workers : WorkerReturn(w))
  /\ SF_vars(ChanSelectClosing)
  /\ SF_vars(ChanLock)
  /\ WF_vars(ChanReturn)

LiveSpec == LiveInit /\ [][Next]_vars /\ Fairness

(***************************************************************************)
(* Properties.                                                             *)
(***************************************************************************)
StopPcs == {"stop", "stopSyncQ", "stopAsyncQ", "stopClosing", "stopHalt"}
Loops   == {T_sync, T_async, T_chan}

\* what the sync loop has dispatched so far
SyncDelivered ==
  [i \in MsgIds |-> IF \E x \in routed[i] : x[1] = "sync"
                      THEN delivered[i] ELSE <<>>]

\* C1 (as stated): once an engine method called by the sync loop has
\* returned an error and Stop's body has run, no message is dispatched to an
\* engine any more, by any loop or worker.
C1_NoDispatchAfterSyncError ==
  [][(hist.syncEngineErr /\ once = "done")
       => (delivered' = delivered /\ chanCalls' = chanCalls)]_vars

\* C1 (amended): after an engine error in the sync loop the sync loop
\* dispatches nothing more and leaves through Stop, whose body has run by the
\* time StopWithError returns; the other loops and the pool may still
\* dispatch until they exit, and nothing is dispatched once Stopped() is
\* closed.
C1_SyncErrorEndsDispatch ==
  /\ [](hist.syncEngineErr
          => pc[T_sync] \in StopPcs \cup {"closeDisp", "exited"})
  /\ [](hist.syncEngineErr /\ pc[T_sync] \in {"closeDisp", "exited"}
          => /\ once = "done"
             /\ hist.stopBodyRuns = 1
             /\ syncClosed /\ asyncClosed /\ closingCloses = 1)
  /\ [][hist.syncEngineErr => SyncDelivered' = SyncDelivered]_vars
  /\ [][closedCloses > 0
          => (delivered' = delivered /\ chanCalls' = chanCalls)]_vars

C1_Witness ==
  /\ hist.syncEngineErr
  /\ once = "done"
  /\ pc[T_sync] = "exited"
  /\ closedCloses = 1

\* C2: the terminal signal is closed exactly once and the terminal routine
\* runs exactly once, whatever started the shutdown: never twice, and once as
\* soon as Start has failed or the third loop has reported closed.
C2_ClosedExactlyOnce ==
  /\ closedCloses <= 1
  /\ hist.shutdownRuns = closedCloses
  /\ (hist.started = "failed" \/ numDispatchersClosed = numDispatchersToClose)
       => closedCloses = 1

\* an external Stop and a fatal error of the sync loop met in one run
C2_Witness ==
  /\ closedCloses = 1
  /\ hist.syncEngineErr
  /\ \E s \in Stoppers : pc[s] = "done"

\* C3: however many callers enter Stop or StopWithError, the body runs
\* once: the queues are shut down by one caller, the closing signal is closed
\* once and the Bootstrapper is halted at most once.
C3_StopBodyOnce ==
  /\ hist.stopBodyRuns <= 1
  /\ closingCloses <= 1
  /\ hist.halts <= 1
  /\ Cardinality({t \in Threads : pc[t] \in StopPcs \ {"stop"}}) <= 1
  /\ (once = "fresh") = (hist.stopBodyRuns = 0)

\* two callers were in Stop at the same time: one ran the body, one waited
C3_Witness ==
  /\ once = "running"
  /\ closingCloses = 1
  /\ \E s \in Stoppers : pc[s] = "stop"
  /\ \E t \in Threads \ Stoppers : pc[t] = "stopHalt"

\* C5: after a successful Start the terminal routine runs in the
\* closeDispatcher call that raises the counter of closed loops to 3 and in no
\* other: it has run exactly when the counter is 3, and the counter counts
\* the loops that have exited.
C5_ShutdownAtThirdLoop ==
  hist.started = "ok" =>
    /\ numDispatchersClosed = Cardinality({l \in Loops : pc[l] = "exited"})
    /\ hist.shutdownRuns =
         (IF numDispatchersClosed = numDispatchersToClose THEN 1 ELSE 0)
    /\ closedCloses = hist.shutdownRuns

C5_Witness ==
  /\ hist.started = "ok"
  /\ numDispatchersClosed = numDispatchersToClose
  /\ hist.shutdownRuns = 1
  /\ hist.engineShutdowns = 1

\* C6: when the current engine's Shutdown has been invoked no engine call
\* that handles a message is in progress: the three loops have exited and
\* every task given to the worker pool has completed.
C6_NoCallInProgressAtShutdown ==
  hist.engineShutdowns > 0 =>
    /\ \A t \in Threads : ~InEngine(t)
    /\ \A w \in Workers : pc[w] = "idle"
    /\ hist.started = "ok" => \A l \in Loops : pc[l] = "exited"

\* the engine was shut down after the pool had executed an async message
C6_Witness ==
  /\ hist.engineShutdowns = 1
  /\ hist.started = "ok"
  /\ \E i \in MsgIds : /\ <<"async", "AppRequest">> \in routed[i]
                       /\ Len(delivered[i]) = 1

\* C7: an engine call of the sync loop and an engine call of the chan loop
\* are never in progress together; each is made by the holder of the lock.
C7_SyncChanExclusive ==
  /\ ~(InEngine(T_sync) /\ InEngine(T_chan))
  /\ InEngine(T_sync) => lock = T_sync
  /\ InEngine(T_chan) => lock = T_chan

\* the chan loop has a message and waits for the lock the sync loop holds
C7_Witness ==
  /\ InEngine(T_sync)
  /\ pc[T_chan] = "lock"
  /\ cur[T_chan].op \in ChanOps

\* C8: while the sync loop is inside an engine call under the consensus
\* lock, every step of the async path that has work to do can be taken: the
\* pop of a queued async message, its submission to a free worker, and the
\* engine call of a submitted task.
C8_AsyncNotBehindLock ==
  (InEngine(T_sync) /\ lock = T_sync) =>
    /\ (pc[T_async] = "pop" /\ asyncQ # <<>>) => ENABLED AsyncPop
    /\ (pc[T_async] = "send" /\ IdleWorkers # {}) => ENABLED handleAsyncMsg
    /\ \A w \in Workers : pc[w] = "ready" => ENABLED WorkerExec(w)

\* AppRequest is inside its engine method while PushQuery still holds the lock
C8_Witness ==
  /\ InEngine(T_sync)
  /\ lock = T_sync
  /\ call[T_sync][2] = "PushQuery"
  /\ \E w \in Workers : InEngine(w) /\ call[w][2] = "AppRequest"

\* the messages of queue q that were popped after their deadline
LatePopped(q) ==
  {i \in MsgIds : popped[i] = "late" /\ \E x \in routed[i] : x[1] = q}

\* C9: a message popped after its deadline is never given to an engine, its
\* completion has run exactly once, each queue's expired counter counts the
\* messages of that queue popped late, and the loop that popped it pops again.
C9_ExpiredDropped ==
  /\ [](/\ \A i \in MsgIds :
             popped[i] = "late" =>
               /\ delivered[i] = <<>>
               /\ finished[i] = 1
               /\ \A t \in Threads : cur[t].id # i
        /\ expired = Cardinality(LatePopped("sync"))
        /\ asyncExpired = Cardinality(LatePopped("async")))
  /\ [][\A i \in MsgIds :
          (popped[i] # "late" /\ popped'[i] = "late") =>
            /\ pc' = pc
            /\ \/ pc[T_sync] = "pop" /\ expired' = expired + 1
               \/ pc[T_async] = "pop" /\ asyncExpired' = asyncExpired + 1]_vars

\* a sync message and an async message were both dropped as expired
C9_Witness ==
  /\ expired = 1
  /\ asyncExpired = 1
  /\ \A i \in MsgIds : popped[i] = "late" /\ finished[i] = 1

\* Stop or StopWithError has been called
StopCalled ==
  \/ once # "fresh"
  \/ \E t \in Threads \ Stoppers : pc[t] = "stop"

\* C4: once Start has been called, a call of Stop or StopWithError (an
\* external one, or the one a loop or a pool task makes after a fatal error)
\* is eventually followed by the close of Stopped().
C4_ShutdownCompletes ==
  (pc[T_start] # "init" /\ StopCalled) ~> (closedCloses = 1)

\* the loops were running, an external caller stopped them, and the handler
\* reached its terminal state
C4_Witness ==
  /\ hist.started = "ok"
  /\ \E s \in Stoppers : pc[s] = "done"
  /\ numDispatchersClosed = numDispatchersToClose
  /\ closedCloses = 1

\* the seven application kinds named by the claim
C10_AsyncKinds ==
  {"AppRequest", "AppRequestFailed", "AppResponse", "AppGossip",
   "CrossChainAppRequest", "CrossChainAppRequestFailed",
   "CrossChainAppResponse"}

\* C10: Push hands a message to exactly one queue, chosen by its operation
\* kind alone: the async queue for the seven application kinds, the sync
\* queue for every other kind; no queue ever holds a message of the other
\* class.
C10_PushRoutesByOp ==
  /\ \A i \in MsgIds :
       IF i < nextId
         THEN /\ Cardinality(routed[i]) = 1
              /\ \A x \in routed[i] :
                   x[1] = (IF x[2] \in C10_AsyncKinds THEN "async" ELSE "sync")
         ELSE routed[i] = {}
  /\ \A k \in 1..Len(syncQ) : syncQ[k].op \notin C10_AsyncKinds
  /\ \A k \in 1..Len(asyncQ) : asyncQ[k].op \in C10_AsyncKinds

\* a cross-chain application message waits in the async queue and a
\* consensus message in the sync queue
C10_Witness ==
  /\ Len(asyncQ) = 1 /\ asyncQ[1].op = "CrossChainAppResponse"
  /\ Len(syncQ) = 1 /\ syncQ[1].op = "Chits"
  /\ routed[asyncQ[1].id] = {<<"async", "CrossChainAppResponse">>}
  /\ routed[syncQ[1].id] = {<<"sync", "Chits">>}

\* the ids of the messages waiting in a queue
Queued == {syncQ[k].id : k \in 1..Len(syncQ)} \cup
          {asyncQ[k].id : k \in 1..Len(asyncQ)}

\* StopWithError has been called by a loop or a pool task
Escalated ==
  \/ once # "fresh"
  \/ \E t \in Loops \cup Workers : pc[t] = "stop"

\* C11: once an engine call made for a sync, an async or a chan message has
\* returned an error, StopWithError has been called; a caller of Stop that
\* finds the body not yet run runs it; and no message is handled twice: a
\* popped message is in no queue again and reaches an engine at most once.
C11_EngineErrorIsFatal ==
  /\ [](hist.engineErr => Escalated)
  /\ [](\A i \in MsgIds :
         /\ Len(delivered[i]) <= 1
         /\ popped[i] # "no" => i \notin Queued)
  /\ [][\A t \in Threads :
          (pc[t] = "stop" /\ pc'[t] # "stop" /\ once = "fresh") =>
            /\ pc'[t] = "stopSyncQ"
            /\ hist'.stopBodyRuns = hist.stopBodyRuns + 1]_vars

\* the engine call of an async message failed, no sync or chan call did, and
\* the shutdown that followed has completed
C11_Witness ==
  /\ hist.engineErr
  /\ ~hist.syncEngineErr
  /\ chanCalls = <<>>
  /\ \E i \in MsgIds :
       /\ routed[i] = {<<"async", "AppRequest">>}
       /\ Len(delivered[i]) = 1
       /\ finished[i] = 1
  /\ hist.stopBodyRuns = 1
  /\ closedCloses = 1

\* thread t leaves the point where it resolves the engine of its message
Dispatches(t) ==
  IF t \in Workers THEN pc[t] = "ready" /\ pc'[t] # "ready"
  ELSE pc[t] = "lock" /\ pc'[t] # "lock"

\* the message of t is completed without an engine call
NoCallMade(t) ==
  /\ delivered' = delivered
  /\ chanCalls' = chanCalls
  /\ call' = call
  /\ t # T_chan => finished'[cur[t].id] = finished[cur[t].id] + 1

\* C12 as stated: whichever loop dispatches the message, a missing engine
\* for the resolved (type, state) pair drops the message, completes it and
\* escalates nothing.
C12_MissingEngineNeverFatal ==
  [][/\ (/\ Dispatches(T_sync)
         /\ ~HasEngine(reg, SyncEngineType(cur[T_sync], ctxState),
                       ctxState.state))
          => (NoCallMade(T_sync) /\ pc'[T_sync] = "pop")
     /\ \A w \in Workers :
          (Dispatches(w) /\ ~HasEngine(reg, ctxState.type, ctxState.state))
            => (NoCallMade(w) /\ pc'[w] = "idle")
     /\ (Dispatches(T_chan) /\ ~HasEngine(reg, ctxState.type, ctxState.state))
          => (NoCallMade(T_chan) /\ pc'[T_chan] = "select")]_vars

\* C12: a sync message whose resolved (type, state) pair has no engine is
\* dropped, completed, and the sync loop goes on; an async or a chan message
\* handled while the chain's current (type, state) pair has no engine
\* reaches no engine either and is completed, but its handler returns the
\* missing-engine error, which goes to StopWithError.
C12_MissingEngine ==
  [][/\ (/\ Dispatches(T_sync)
         /\ ~HasEngine(reg, SyncEngineType(cur[T_sync], ctxState),
                       ctxState.state))
          => (NoCallMade(T_sync) /\ pc'[T_sync] = "pop")
     /\ \A w \in Workers :
          (Dispatches(w) /\ ~HasEngine(reg, ctxState.type, ctxState.state))
            => (NoCallMade(w) /\ pc'[w] = "stop")
     /\ (Dispatches(T_chan) /\ ~HasEngine(reg, ctxState.type, ctxState.state))
          => (NoCallMade(T_chan) /\ pc'[T_chan] = "stop")]_vars

\* the chain moved to a state without an engine; the sync loop dropped a
\* message there and pops again, while a pool task is about to stop the
\* handler over its message
C12_Witness ==
  /\ ~HasEngine(reg, ctxState.type, ctxState.state)
  /\ pc[T_sync] = "pop"
  /\ \E i \in MsgIds :
       /\ routed[i] = {<<"sync", "PushQuery">>}
       /\ popped[i] = "intime"
       /\ delivered[i] = <<>>
       /\ finished[i] = 1
  /\ \E w \in Workers, i \in MsgIds :
       /\ pc[w] = "stop"
       /\ routed[i] = {<<"async", "AppRequest">>}
       /\ delivered[i] = <<>>
       /\ finished[i] = 1
  /\ once = "fresh"

\* C13: when the sync loop resolves the engine of a message it holds the
\* consensus lock alone, and with the state read there: a message asking for
\* Snowman on an Avalanche chain is completed without a call and without an
\* error; any other message that reaches an engine reaches the engine of the
\* requested type when it asks for Avalanche or Snowman, and of the chain's
\* current type otherwise, registered for the current lifecycle state; and a
\* well-formed message for which that engine exists is not dropped
\* (ConnectedSubnet goes to the subnet connector once the engine is found).
C13_EngineTypeResolution ==
  [][Dispatches(T_sync) =>
       LET m == cur[T_sync]
           want == IF m.etype \in {"Avalanche", "Snowman"}
                     THEN m.etype ELSE ctxState.type
       IN /\ lock = Nil
          /\ ctxState' = ctxState
          /\ IF m.etype = "Snowman" /\ ctxState.type = "Avalanche"
               THEN NoCallMade(T_sync) /\ pc'[T_sync] = "pop"
               ELSE /\ pc'[T_sync] = "engine" =>
                         /\ lock' = T_sync
                         /\ HasEngine(reg, want, ctxState.state)
                         /\ call'[T_sync][1] =
                              (IF m.op = "ConnectedSubnet"
                                 THEN "SubnetConnector" ELSE want)
                         /\ delivered'[m.id] = <<call'[T_sync]>>
                    /\ (HasEngine(reg, want, ctxState.state) /\ m.valid) =>
                         pc'[T_sync] = "engine"]_vars

\* on a linearized chain a message asking for the Avalanche engine is inside
\* that engine
C13_Witness ==
  /\ ctxState.type = "Snowman"
  /\ InEngine(T_sync)
  /\ cur[T_sync].etype = "Avalanche"
  /\ call[T_sync] = <<"Avalanche", "Get">>

\* the response kinds named by the claim
C14_ResponseOps ==
  {"AcceptedStateSummary", "AcceptedFrontier", "Accepted", "Ancestors",
   "Put", "Chits", "StateSummaryFrontier"}

\* the failed callback that matches a response kind
C14_FailedOf(op) ==
  CASE op = "AcceptedStateSummary" -> "GetAcceptedStateSummaryFailed"
    [] op = "AcceptedFrontier"     -> "GetAcceptedFrontierFailed"
    [] op = "Accepted"             -> "GetAcceptedFailed"
    [] op = "Ancestors"            -> "GetAncestorsFailed"
    [] op = "Put"                  -> "GetFailed"
    [] op = "Chits"                -> "QueryFailed"
    [] op = "StateSummaryFrontier" -> "GetStateSummaryFrontierFailed"
    [] OTHER                       -> "none"

\* C14: every response message the sync loop popped before its deadline and
\* has finished handling reached an engine: its response handler or the
\* matching failed callback was invoked for it.
C14_ResponseNeverDropped ==
  \A i \in MsgIds :
    \A x \in routed[i] :
      (x[2] \in C14_ResponseOps /\ popped[i] = "intime" /\ finished[i] >= 1)
        => /\ Len(delivered[i]) = 1
           /\ delivered[i][1][2] \in {x[2], C14_FailedOf(x[2])}

\* the failed callback the claim gives for each response kind
C15_FailedOf(op) ==
  CASE op = "AcceptedStateSummary" -> "GetAcceptedStateSummaryFailed"
    [] op = "AcceptedFrontier"     -> "GetAcceptedFrontierFailed"
    [] op = "Accepted"             -> "GetAcceptedFailed"
    [] op = "Chits"                -> "QueryFailed"

\* C15: for an AcceptedStateSummary, AcceptedFrontier, Accepted or Chits
\* message whose payload does not decode and whose engine has been resolved,
\* the sync loop invokes the matching failed callback of that engine, and it
\* is the only engine method invoked for the message.
C15_FailedCallbackOnBadPayload ==
  /\ [][Dispatches(T_sync) =>
          LET m == cur[T_sync]
              want == IF m.etype \in {"Avalanche", "Snowman"}
                        THEN m.etype ELSE ctxState.type
          IN (/\ m.op \in {"AcceptedStateSummary", "AcceptedFrontier",
                           "Accepted", "Chits"}
              /\ ~m.valid
              /\ ~(m.etype = "Snowman" /\ ctxState.type = "Avalanche")
              /\ HasEngine(reg, want, ctxState.state))
             => (/\ pc'[T_sync] = "engine"
                 /\ call'[T_sync] = <<want, C15_FailedOf(m.op)>>
                 /\ delivered'[m.id] = <<call'[T_sync]>>)]_vars
  /\ [][\A i \in MsgIds :
          delivered'[i] # delivered[i] => delivered[i] = <<>>]_vars

\* a Chits message with an undecodable id list is inside QueryFailed
C15_Witness ==
  /\ InEngine(T_sync)
  /\ cur[T_sync].op = "Chits"
  /\ ~cur[T_sync].valid
  /\ call[T_sync][2] = "QueryFailed"
  /\ delivered[cur[T_sync].id] = <<call[T_sync]>>

\* C16: a GetAcceptedStateSummary, GetAccepted, GetAncestors, Get or
\* PullQuery message whose payload is malformed is completed by the sync
\* loop without any engine method being invoked and without an error: the
\* loop pops again.
C16_BadRequestDropped ==
  [][Dispatches(T_sync) =>
       ((/\ cur[T_sync].op \in {"GetAcceptedStateSummary", "GetAccepted",
                                 "GetAncestors", "Get", "PullQuery"}
         /\ ~cur[T_sync].valid)
        => (NoCallMade(T_sync) /\ pc'[T_sync] = "pop"))]_vars

\* C17: once selectStartingGear has run for the engine type of the state:
\* without an Engines value for that type it failed with NoStartingGear;
\* without a StateSyncer, or with one that reports itself disabled, it
\* returned the Bootstrapper; with a StateSyncer that reports itself enabled
\* it returned the StateSyncer (unless Clear failed); and whenever it
\* returned no error it returned a gear.
C17_StartingGear ==
  pc[T_start] # "init" =>
    LET engines == EnginesOf(reg, ctxState.type) IN
    /\ ~engines.some =>
         (hist.gearErr = "NoStartingGear" /\ hist.started = "failed")
    /\ (/\ engines.some
        /\ \/ "StateSyncing" \notin engines.states
           \/ hist.isEnabled = "false")
         => (hist.gearErr = "none" /\ gear = "Bootstrapper")
    /\ (/\ engines.some
        /\ "StateSyncing" \in engines.states
        /\ hist.isEnabled = "true"
        /\ hist.gearErr # "Clear")
         => gear = "StateSyncer"
    /\ (hist.gearErr = "none" /\ hist.started # "panicked")
         => gear \in {"Bootstrapper", "StateSyncer"}

\* C18: once gear selection is over, Bootstrapper.Clear has run once if a
\* StateSyncer is registered and reported itself enabled, and not at all
\* otherwise; a StateSyncer that was started was started after Clear; and
\* after an error of IsEnabled or of Clear no gear is ever started.
C18_ClearBeforeStateSync ==
  pc[T_start] # "init" =>
    LET engines == EnginesOf(reg, ctxState.type) IN
    /\ hist.clears =
         (IF /\ engines.some
             /\ "StateSyncing" \in engines.states
             /\ hist.isEnabled = "true"
            THEN 1 ELSE 0)
    /\ (gear = "StateSyncer" /\ hist.gearStarts > 0) => hist.clears = 1
    /\ hist.gearErr \in {"IsEnabled", "Clear"} =>
         (hist.gearStarts = 0 /\ hist.started = "failed")

\* C19: after a failed gear selection or a failed gear.Start, Start has
\* returned, the terminal routine has run once and Stopped() is closed; no
\* loop and no pool task ever runs, and no message reaches an engine.
C19_FailedStartShutsDown ==
  hist.started = "failed" =>
    /\ pc[T_start] = "done"
    /\ hist.shutdownRuns = 1
    /\ closedCloses = 1
    /\ \A l \in Loops : pc[l] = "off"
    /\ \A w \in Workers : pc[w] = "idle"
    /\ \A i \in MsgIds : delivered[i] = <<>> /\ popped[i] = "no"
    /\ chanCalls = <<>>
    /\ \A t \in Threads : call[t] = NoCall
    /\ numDispatchersClosed = 0

\* gear.Start failed; messages were pushed to both queues afterwards and an
\* external Stop has run, and nothing was dispatched
C19_Witness ==
  /\ hist.started = "failed"
  /\ hist.gearStarts = 1
  /\ Len(syncQ) = 1
  /\ Len(asyncQ) = 1
  /\ \E t \in Stoppers : pc[t] = "stopSyncQ"
  /\ closedCloses = 1

\* a loop or a pool task has left its initial position, or a message has
\* been popped or has reached an engine
LoopsAtWork ==
  \/ \E l \in Loops : pc[l] # "off"
  \/ \E w \in Workers : pc[w] # "idle"
  \/ \E i \in MsgIds : delivered[i] # <<>> \/ popped[i] # "no"
  \/ chanCalls # <<>>

\* C20: nothing is dispatched before the starting gear's Start has returned
\* without error; Start holds the consensus lock while the gear starts; and
\* the three loops are launched in the step in which gear.Start succeeds,
\* by Start, which then releases the lock.
C20_NoDispatchBeforeGearStarted ==
  /\ [](LoopsAtWork => (hist.started = "ok" /\ hist.gearStarts = 1))
  /\ [](pc[T_start] = "gearStart" => lock = T_start)
  /\ [][\A l \in Loops :
          (pc[l] = "off" /\ pc'[l] # "off") =>
            /\ pc[T_start] = "gearStart"
            /\ lock = T_start
            /\ hist.started = "no"
            /\ hist'.started = "ok"
            /\ lock' = Nil]_vars

\* the gear started, and a sync and an async message are inside engines
C20_Witness ==
  /\ hist.started = "ok"
  /\ hist.gearStarts = 1
  /\ InEngine(T_sync)
  /\ \E w \in Workers : InEngine(w)
  /\ pc[T_start] = "done"

(***************************************************************************)
(* C21 to C30.                                                             *)
(***************************************************************************)
\* the calls of a method the chan loop has made
ChanCallsOf(method) ==
  Cardinality({k \in 1..Len(chanCalls) : chanCalls[k][2] = method})

\* timeouts taken out of the channel by the chan loop
TimeoutsTaken ==
  timers.registered - timers.waiting - timers.coalesced - timeouts

\* C21: timeouts are coalesced.  At most one timeout waits in the timeouts
\* channel; a timer that fires while one waits leaves the channel as it is
\* (its send is dropped), and the engine's Timeout is invoked at most once
\* for each timeout the chan loop took out of the channel, so that two timers
\* firing before the loop drains the channel give one Timeout call.
C21_TimeoutsCoalesced ==
  /\ [](/\ timeouts \in {0, 1}
        /\ ChanCallsOf("Timeout") <= TimeoutsTaken
        /\ TimeoutsTaken <= timers.registered - timers.coalesced)
  /\ [][/\ (timers'.waiting < timers.waiting /\ timeouts = 1)
             => /\ timeouts' = 1
                /\ timers'.coalesced = timers.coalesced + 1
                /\ UNCHANGED <<pc, cur, call, chanCalls>>
        /\ (timers'.waiting < timers.waiting /\ timeouts = 0)
             => /\ timeouts' = 1
                /\ timers'.coalesced = timers.coalesced
        /\ ChanCallsOf("Timeout")' > ChanCallsOf("Timeout")
             => /\ cur[T_chan].op = "Timeout"
                /\ ChanCallsOf("Timeout")' = ChanCallsOf("Timeout") + 1]_vars

\* two timers fired before the chan loop drained the channel, and the loop
\* has invoked Timeout once for the pair and is back at its select
C21_Witness ==
  /\ timers = [registered |-> 2, waiting |-> 0, coalesced |-> 1]
  /\ timeouts = 0
  /\ ChanCallsOf("Timeout") = 1
  /\ pc[T_chan] = "select"

\* the handler ran (Start spawned the loops), Stop has returned and
\* Stopped() is closed: the loops have exited and the pool is shut down, so
\* nothing is left that pops or completes a message
HandlerOver ==
  /\ hist.started = "ok"
  /\ closedCloses > 0
  /\ once = "done"

\* C22: the completion callback of every message handed to Push is invoked
\* exactly once: never twice, and never skipped.  Once a handler that ran is
\* over, every message that was handed to Push has had its completion
\* invoked, whatever became of it.
C22_CompletionExactlyOnce ==
  \A i \in MsgIds :
    /\ finished[i] <= 1
    /\ (HandlerOver /\ routed[i] # {}) => finished[i] = 1

\* the messages of queue q that are not queued any more were returned by Pop
\* (or never entered the queue: Push found it shut down and completed them)
ReturnedByPop(name, q) ==
  \A i \in MsgIds :
    (/\ \E x \in routed[i] : x[1] = name
     /\ \A k \in 1..Len(q) : q[k].id # i)
      => (popped[i] # "no" \/ finished[i] = 1)

EnginesThroughout == reg \in {RegSnowman, RegLinear}

\* the sync loop starts the engine call of the message it holds
SyncCallStarts == pc[T_sync] = "lock" /\ pc'[T_sync] = "engine"

AtHalt(t) == pc[t] = "stopHalt"

\* C25: the body of Stop runs in order and halts without the lock.  The
\* async queue is shut down only after the sync queue, and the closing
\* signal is closed only after both.  The Bootstrapper is asked to Halt at
\* most once, after the closing signal was closed, and it is the one
\* registered for the engine type current at that step (no Halt when there
\* is none).  The step takes no lock: the thread at Halt can always proceed,
\* whoever holds the consensus lock, and never holds it itself.
C25_StopOrder ==
  /\ [](/\ hist.halts <= 1
        /\ asyncClosed => syncClosed
        /\ closingCloses > 0 => (syncClosed /\ asyncClosed)
        /\ \A t \in Threads :
             AtHalt(t) => (/\ ENABLED StopHalt(t)
                           /\ lock # t
                           /\ closingCloses = 1
                           /\ hist.halts = 0))
  /\ [][\A t \in Threads :
          (AtHalt(t) /\ ~AtHalt(t)')
            => /\ hist'.halts =
                    IF HasEngine(reg, ctxState.type, "Bootstrapping")
                      THEN 1 ELSE 0
               /\ lock' = lock
               /\ once' = "done"]_vars

\* Stop has halted the Bootstrapper and returned while the sync loop holds
\* the consensus lock inside an engine call of the bootstrap
C25_Witness ==
  /\ hist.halts = 1
  /\ once = "done"
  /\ pc[CHOOSE t \in Stoppers : TRUE] = "done"
  /\ lock = T_sync
  /\ pc[T_sync] = "engine"
  /\ ctxState.state = "Bootstrapping"

\* the step in which handler.shutdown runs
ShutdownRuns == hist'.shutdownRuns = hist.shutdownRuns + 1

\* C26: an error on the shutdown path never prevents the terminal state.
\* When Stop has returned, both queues are shut down and the closing signal
\* is closed, whether it found a Bootstrapper to Halt or not.  The terminal
\* routine runs when the start fails and when the third loop exits; whether
\* it finds an engine or not and whether the engine's Shutdown fails or
\* not, it closes Stopped(), once, and schedules the on-stopped callback when
\* one was set.
C26_ShutdownErrorsNotFatal ==
  /\ [](/\ once = "done"
             => (syncClosed /\ asyncClosed /\ closingCloses = 1)
        /\ closedCloses <= 1
        /\ closedCloses = hist.shutdownRuns
        /\ hist.onStoppedRuns =
             IF hist.onStoppedSet THEN hist.shutdownRuns ELSE 0)
  /\ [][/\ ShutdownRuns => closedCloses' = 1
        /\ (hist'.started = "failed" /\ hist.started # "failed")
             => ShutdownRuns
        /\ (numDispatchersClosed' = numDispatchersToClose
              /\ numDispatchersClosed # numDispatchersToClose)
             => ShutdownRuns]_vars

\* the loops have exited, the third one ran the terminal routine, the
\* engine's Shutdown returned an error, and Stopped() is closed with the
\* callback scheduled
C26_Witness ==
  /\ hist.shutdownErrs = 1
  /\ numDispatchersClosed = numDispatchersToClose
  /\ closedCloses = 1
  /\ hist.onStoppedSet /\ hist.onStoppedRuns = 1
  /\ once = "done"

\* Stop found no Bootstrapper and the terminal routine found no engine;
\* Stopped() is closed with the callback scheduled
C26_MissingEngines ==
  /\ hist.stopBodyRuns = 1 /\ once = "done" /\ hist.halts = 0
  /\ hist.shutdownRuns = 1 /\ hist.engineShutdowns = 0
  /\ closedCloses = 1
  /\ hist.onStoppedSet /\ hist.onStoppedRuns = 1

\* the loops ran and the terminal routine found no engine
C26_MissingEngineAfterLoops ==
  /\ numDispatchersClosed = numDispatchersToClose
  /\ hist.shutdownRuns = 1 /\ hist.engineShutdowns = 0
  /\ closedCloses = 1

\* the engine method handleChanMsg invokes for an internal message
ChanMethod(op) ==
  CASE op = "Notify" -> "Notify"
    [] op = "GossipRequest" -> "Gossip"
    [] op = "Timeout" -> "Timeout"

\* the chan loop takes an event out of one of its sources
ChanConsumes == pc[T_chan] = "select" /\ pc'[T_chan] = "lock"

\* C27: the chan loop turns each event it consumes into one internal message
\* (a VM notification into Notify, a gossip tick into GossipRequest, a
\* timeout-ready signal into Timeout) and dispatches it under the consensus
\* lock: the lock is free before, held by the chan loop during the call, and
\* the method matching the message is invoked on an engine registered for
\* the state read in that step (the engine of the current type, or first the
\* Avalanche engine for a gossip request on a linearized chain).  The
\* completion of the message runs once per message, after the lock was
\* released.
C27_ChanDispatchUnderLock ==
  /\ [](/\ InEngine(T_chan)
             => /\ lock = T_chan
                /\ call[T_chan][2] = ChanMethod(cur[T_chan].op)
        /\ ~hist.finishedLocked)
  /\ [][/\ ChanConsumes
             => /\ \/ /\ vmChan' = vmChan - 1
                      /\ cur'[T_chan].op = "Notify"
                      /\ UNCHANGED <<ticks, timeouts>>
                   \/ /\ ticks' = ticks + 1
                      /\ cur'[T_chan].op = "GossipRequest"
                      /\ UNCHANGED <<vmChan, timeouts>>
                   \/ /\ timeouts' = timeouts - 1
                      /\ cur'[T_chan].op = "Timeout"
                      /\ UNCHANGED <<vmChan, ticks>>
                /\ UNCHANGED <<lock, call, chanCalls>>
        /\ Dispatches(T_chan)
             => /\ lock = Nil
                /\ \/ /\ HasEngine(reg, ctxState.type, ctxState.state)
                      /\ lock' = T_chan
                      /\ call'[T_chan][2] = ChanMethod(cur[T_chan].op)
                      /\ \/ call'[T_chan][1] = ctxState.type
                         \/ /\ cur[T_chan].op = "GossipRequest"
                            /\ ctxState.type = "Snowman"
                            /\ call'[T_chan][1] = "Avalanche"
                      /\ HasEngine(reg, call'[T_chan][1], ctxState.state)
                      /\ chanCalls' = Append(chanCalls, call'[T_chan])
                      /\ hist'.chanFinished = hist.chanFinished
                   \/ /\ ~HasEngine(reg, ctxState.type, ctxState.state)
                      /\ NoCallMade(T_chan)
                      /\ lock' = Nil
                      /\ hist'.chanFinished = hist.chanFinished + 1
        /\ hist'.chanFinished # hist.chanFinished
             => /\ hist'.chanFinished = hist.chanFinished + 1
                /\ cur[T_chan].op \in ChanOps
                /\ cur'[T_chan] = NoMsg
                /\ lock' = Nil]_vars

\* the chan loop has consumed a VM notification and a timeout; Notify and
\* Timeout were invoked, and both completions ran with the lock released
C27_Witness ==
  /\ Len(chanCalls) = 2
  /\ ChanCallsOf("Notify") = 1 /\ ChanCallsOf("Timeout") = 1
  /\ hist.chanFinished = 2
  /\ pc[T_chan] = "select"
  /\ lock = Nil

\* the chain was linearized and the Avalanche engine of its state is known
Linearized ==
  ctxState.type = "Snowman" /\ HasEngine(reg, "Avalanche", ctxState.state)

\* the chan loop is inside the Gossip of the Avalanche engine of a
\* linearized chain
InOldGossip ==
  /\ InEngine(T_chan)
  /\ call[T_chan] = <<"Avalanche", "Gossip">>
  /\ cur[T_chan].etype = "Snowman"

\* C28: a gossip request dispatched while the chain's type is Snowman and an
\* Avalanche engine is registered for the current state invokes the Gossip of
\* the Avalanche engine and, when that returns without error, the Gossip of
\* the Snowman engine, the lock being held throughout; when it returns an
\* error the Snowman engine is not called and the chan loop escalates to
\* StopWithError.  Any other gossip request that is dispatched invokes the
\* Gossip of the current engine and nothing else.
C28_GossipAfterLinearization ==
  /\ [](InOldGossip => lock = T_chan)
  /\ [][/\ (/\ Dispatches(T_chan)
            /\ cur[T_chan].op = "GossipRequest"
            /\ HasEngine(reg, ctxState.type, ctxState.state))
             => IF Linearized
                  THEN /\ call'[T_chan] = <<"Avalanche", "Gossip">>
                       /\ InOldGossip'
                       /\ chanCalls' = Append(chanCalls, call'[T_chan])
                  ELSE /\ call'[T_chan] = <<ctxState.type, "Gossip">>
                       /\ ~InOldGossip'
                       /\ chanCalls' = Append(chanCalls, call'[T_chan])
        /\ (InOldGossip /\ ~InOldGossip')
             => \/ /\ call'[T_chan] = <<"Snowman", "Gossip">>
                   /\ chanCalls' = Append(chanCalls, <<"Snowman", "Gossip">>)
                   /\ InEngine(T_chan)'
                   /\ lock' = T_chan
                   /\ UNCHANGED hist
                \/ /\ call'[T_chan] = NoCall
                   /\ chanCalls' = chanCalls
                   /\ hist'.engineErr
                   /\ pc'[T_chan] = "stop"
        /\ (/\ InEngine(T_chan) /\ ~InOldGossip
            /\ call[T_chan][2] = "Gossip"
            /\ call'[T_chan] # call[T_chan])
             => /\ call'[T_chan] = NoCall
                /\ chanCalls' = chanCalls]_vars

\* a gossip request on a linearized chain was handled to the end: the Gossip
\* of the Avalanche engine, then the Gossip of the Snowman engine
C28_Witness ==
  /\ chanCalls = <<<<"Avalanche", "Gossip">>, <<"Snowman", "Gossip">>>>
  /\ hist.oldGossips = 1
  /\ hist.chanFinished = 1
  /\ pc[T_chan] = "select"

\* the Gossip of the Avalanche engine returned an error: no Gossip of the
\* Snowman engine, and the chan loop is on its way to StopWithError
C28_OldGossipFailed ==
  /\ chanCalls = <<<<"Avalanche", "Gossip">>>>
  /\ hist.oldGossips = 1
  /\ hist.engineErr
  /\ pc[T_chan] = "stop"

\* C29 as stated: over the lifetime of a handler the Gossip of the old-type
\* (Avalanche) engine of a linearized chain is invoked for at most one
\* gossip request.
C29_OldGossipAtMostOnce == hist.oldGossips <= 1

\* C29: the old type's frontier is gossiped on every gossip request after the
\* linearization.  Each gossip request dispatched while the chain's type is
\* Snowman and an Avalanche engine is registered for the current state
\* invokes the Gossip of the Avalanche engine, however many requests did so
\* before; it is invoked once per such request and for no other message, so
\* never more often than the gossip ticker has fired.
C29_OldGossipEveryRequest ==
  /\ [](hist.oldGossips <= ticks)
  /\ [][/\ (/\ Dispatches(T_chan)
            /\ cur[T_chan].op = "GossipRequest"
            /\ HasEngine(reg, ctxState.type, ctxState.state)
            /\ Linearized)
             => /\ hist'.oldGossips = hist.oldGossips + 1
                /\ call'[T_chan] = <<"Avalanche", "Gossip">>
        /\ hist'.oldGossips # hist.oldGossips
             => /\ hist'.oldGossips = hist.oldGossips + 1
                /\ Dispatches(T_chan)
                /\ cur[T_chan].op = "GossipRequest"
                /\ Linearized]_vars

\* two gossip ticks after the linearization: the Gossip of the Avalanche
\* engine was invoked for each of them
C29_Witness ==
  /\ hist.oldGossips = 2
  /\ chanCalls = <<<<"Avalanche", "Gossip">>, <<"Snowman", "Gossip">>,
                   <<"Avalanche", "Gossip">>, <<"Snowman", "Gossip">>>>

\* the loop or pool task that is handling message i, if any
HandlersOf(i) == {t \in Threads : cur[t].id = i /\ pc[t] = "engine"}

\* C30: the ResourceTracker calls bracket every processed message.  For a
\* message handed to handleSyncMsg or executeAsyncMsg the tracker sees
\* StartProcessing once, then StopProcessing once, for the node of the
\* message: the start is made by the time an engine method is invoked, the
\* stop is not made while the engine call is in progress, and it is made on
\* every way out (engine success or error, drop, missing engine), by the time
\* the completion runs.  Expired messages, messages never popped and the
\* internal messages of the chan loop cause neither call.
C30_TrackerBrackets ==
  /\ [](/\ hist.proc[0] = <<>>
        /\ \A i \in MsgIds :
             LET p == hist.proc[i] IN
             /\ Len(p) <= 2
             /\ Len(p) >= 1 => p[1][1] = "StartProcessing"
             /\ Len(p) = 2 => p[2] = <<"StopProcessing", p[1][2]>>
             /\ \A t \in HandlersOf(i) :
                  p = <<<<"StartProcessing", cur[t].node>>>>
             /\ Len(p) = 2 <=> (popped[i] = "intime" /\ finished[i] = 1)
             /\ popped[i] # "intime" => p = <<>>
             /\ delivered[i] # <<>> => Len(p) >= 1)
  /\ [][\A i \in MsgIds :
          /\ delivered'[i] # delivered[i] => Len(hist'.proc[i]) = 1
          /\ Len(hist'.proc[i]) > Len(hist.proc[i])
               => \E t \in Threads \ {T_chan} :
                    /\ cur[t].id = i
                    /\ hist'.proc[i][Len(hist'.proc[i])][2] = cur[t].node
                    /\ Dispatches(t) \/ (InEngine(t) /\ ~InEngine(t)')]_vars

\* the first message was processed by an engine between a StartProcessing
\* and a StopProcessing of its node; the second expired in its queue and
\* was dropped without either call
C30_Witness ==
  /\ lim = MaxInputs
  /\ delivered[1] # <<>> /\ finished[1] = 1
  /\ hist.proc[1] = <<<<"StartProcessing", "n1">>, <<"StopProcessing", "n1">>>>
  /\ popped[2] = "late" /\ finished[2] = 1
  /\ hist.proc[2] = <<>>

(***************************************************************************)
(* C31 to C40                                                              *)
(***************************************************************************)

\* C31: once preemptTimeouts is closed, every RegisterTimeout goroutine that
\* is still waiting, whether it was spawned before or after the signal, can
\* go on to its send at once: no timer has to elapse first.
C31_PreemptCollapsesTimeouts ==
  (preemptTimeouts /\ timers.waiting > 0) => ENABLED TimerFire

\* two goroutines went on through preemptTimeouts while their timers were
\* still running
C31_Witness ==
  /\ preemptTimeouts
  /\ hist.preemptWakes = 2
  /\ timers.waiting = 0
  /\ timerC = 0

\* C35: a RegisterTimeout goroutine whose timer has fired, or whose
\* preemptTimeouts is closed, can always take its next step, the send that
\* does not block, also while a timeout is waiting in the channel and after
\* the chan loop has exited; and every goroutine that waits returns.
C35_TimeoutGoroutinesTerminate ==
  /\ []((timers.waiting > 0 /\ (timerC > 0 \/ preemptTimeouts))
          => ENABLED TimerFire)
  /\ (timers.waiting > 0) ~> (timers.waiting = 0)

\* both goroutines have returned; one dropped its timeout because the other's
\* was still in the channel, after the chan loop had exited
C35_Witness ==
  /\ hist.droppedAfterExit
  /\ pc[T_chan] = "exited"
  /\ timeouts = 1
  /\ timers = [registered |-> 2, waiting |-> 0, coalesced |-> 1]

ConnectorCall == <<"SubnetConnector", "ConnectedSubnet">>

InConnector == InEngine(T_sync) /\ call[T_sync] = ConnectorCall

\* C32: a ConnectedSubnet message that reaches the switch of handleSyncMsg
\* (its engine was resolved) leads to subnetConnector.ConnectedSubnet and to
\* nothing else: the call is made while the consensus lock is held, no engine
\* method is invoked for the message, and when the call returns the lock is
\* released and the message completed; an error of the call has been
\* escalated through StopWithError like an engine error.
C32_ConnectedSubnet ==
  /\ [](\A i \in MsgIds :
          <<"sync", "ConnectedSubnet">> \in routed[i] =>
            \A k \in 1..Len(delivered[i]) : delivered[i][k] = ConnectorCall)
  /\ [](InConnector => cur[T_sync].op = "ConnectedSubnet" /\ lock = T_sync)
  /\ [](hist.connectorErr => Escalated)
  /\ [][(Dispatches(T_sync) /\ cur[T_sync].op = "ConnectedSubnet"
           /\ ~(cur[T_sync].etype = "Snowman" /\ ctxState.type = "Avalanche")
           /\ HasEngine(reg, SyncEngineType(cur[T_sync], ctxState),
                        ctxState.state))
          => InConnector']_vars
  /\ [][(InConnector /\ ~InConnector') =>
          /\ lock' = Nil
          /\ finished'[cur[T_sync].id] = finished[cur[T_sync].id] + 1
          /\ pc'[T_sync] \in {"pop", "stop"}
          /\ hist'.connectorErr /\ ~hist.connectorErr
               => pc'[T_sync] = "stop"]_vars

\* subnetConnector.ConnectedSubnet returned an error for the only message of
\* the run; no engine was called and the handler has shut down
C32_Witness ==
  /\ hist.connectorErr
  /\ ~hist.syncEngineErr
  /\ \E i \in MsgIds :
       /\ routed[i] = {<<"sync", "ConnectedSubnet">>}
       /\ delivered[i] = <<ConnectorCall>>
       /\ finished[i] = 1
  /\ chanCalls = <<>>
  /\ closedCloses = 1

\* the loops that call StopWithError themselves
ErrLoops == {T_sync, T_chan}

\* a loop that is in StopWithError, in its deferred closeDispatcher or gone
LoopOver(t) == pc[t] \in StopPcs \cup {"closeDisp", "exited"}

\* C33: when handleSyncMsg or handleChanMsg returns an error, the lock is
\* released and the completion of the failing message has run before the
\* loop calls StopWithError; from StopWithError the loop only goes on to its
\* closeDispatcher and exits: the sync loop pops and delivers no further sync
\* message, and the chan loop takes no further event from its channels.
C33_ErrorEndsLoop ==
  /\ [][\A t \in ErrLoops :
          (pc[t] # "stop" /\ pc'[t] = "stop") =>
            /\ lock' # t
            /\ call'[t] = NoCall
            /\ cur'[t] = NoMsg
            /\ once' = once
            /\ t = T_sync =>
                 finished'[cur[t].id] = finished[cur[t].id] + 1
            /\ t = T_chan => hist'.chanFinished = hist.chanFinished + 1]_vars
  /\ [][\A t \in ErrLoops :
          /\ pc[t] \in StopPcs => pc'[t] \in StopPcs \cup {"closeDisp"}
          /\ pc[t] \in {"closeDisp", "exited"} =>
               pc'[t] \in {"closeDisp", "exited"}]_vars
  /\ [][LoopOver(T_sync) =>
          \A i \in MsgIds :
            (\E x \in routed[i] : x[1] = "sync") =>
              /\ popped'[i] = popped[i]
              /\ delivered'[i] = delivered[i]
              /\ finished'[i] = finished[i]]_vars
  /\ [][LoopOver(T_chan) =>
          /\ chanCalls' = chanCalls
          /\ ticks' = ticks
          /\ vmChan' >= vmChan
          /\ timeouts' >= timeouts
          /\ hist'.chanFinished = hist.chanFinished]_vars

\* the Timeout call of the chan loop returned an error, the only engine call
\* of the run; the loop has exited and left the VM's notification in its
\* channel
C33_Witness ==
  /\ pc[T_chan] = "exited"
  /\ hist.engineErr
  /\ \A i \in MsgIds : delivered[i] = <<>>
  /\ Len(chanCalls) = 1
  /\ chanCalls[1][2] = "Timeout"
  /\ vmChan = 1

\* C34: once engine.Shutdown has been invoked by the shutdown routine, no
\* method of any engine is invoked any more: no message reaches an engine, no
\* gear is started, and Stop does not halt the Bootstrapper.
C34_NothingAfterEngineShutdown ==
  [][hist.engineShutdowns > 0 =>
       /\ hist'.halts = hist.halts
       /\ hist'.gearStarts = hist.gearStarts
       /\ delivered' = delivered
       /\ chanCalls' = chanCalls
       /\ hist'.engineShutdowns = hist.engineShutdowns]_vars

\* asyncMessagePool.Send hands a task to a worker of the pool
PoolSend == \E w \in Workers : pc[w] = "idle" /\ pc'[w] = "ready"

\* C36: a task is sent to the worker pool only by the async loop, in
\* handleAsyncMsg, and never once the pool has been shut down; the pool is
\* shut down only by the async loop on its way out, after its last Send and
\* before its closeDispatcher, and at most once.
C36_NoSendAfterPoolShutdown ==
  /\ [](hist.poolShutdowns <= 1)
  /\ [](hist.poolShutdowns = 1 <=> pc[T_async] \in {"closeDisp", "exited"})
  /\ [][PoolSend =>
          /\ pc[T_async] = "send"
          /\ pc'[T_async] = "pop"
          /\ hist.poolShutdowns = 0
          /\ hist'.poolShutdowns = 0]_vars
  /\ [][hist'.poolShutdowns # hist.poolShutdowns =>
          /\ pc[T_async] = "poolShutdown"
          /\ pc'[T_async] = "closeDisp"]_vars

\* the async loop sent two tasks to the pool, shut the pool down and exited
C36_Witness ==
  /\ hist.poolShutdowns = 1
  /\ pc[T_async] = "exited"
  /\ \A i \in MsgIds :
       /\ \E x \in routed[i] : x[1] = "async"
       /\ Len(delivered[i]) = 1

\* the positions at which a thread asks for the consensus lock
AtAcquire(t) ==
  \/ pc[t] \in {"lock", "closeDisp"}
  \/ t = T_start /\ pc[t] = "init"

\* C37: the thread that holds the consensus lock is inside the call it took
\* the lock for (an engine call of the sync or chan loop, gear.Start): it is
\* at no point where the lock is asked for, not in StopWithError and not in
\* closeDispatcher.  The lock is taken only when it is free.  The counter
\* of closeDispatcher is moved by the three loops only, so Start's failure
\* path, which runs the shutdown routine while Start holds the lock, does not
\* go through closeDispatcher.  A loop that waits for the free lock can take
\* it.
C37_LockNotReentered ==
  /\ [](\A t \in Threads :
          lock = t => /\ ~AtAcquire(t)
                      /\ pc[t] \notin StopPcs
                      /\ pc[t] \in {"engine", "gearStart"})
  /\ [](\A t \in Loops :
          (AtAcquire(t) /\ lock = Nil) =>
            ENABLED (SyncLock \/ ChanLock \/ closeDispatcher(t)))
  /\ [][(lock' # lock /\ lock' # Nil) => lock = Nil]_vars
  /\ [][numDispatchersClosed' # numDispatchersClosed =>
          /\ pc[T_start] = "done"
          /\ \E t \in Loops : pc[t] = "closeDisp" /\ pc'[t] = "exited"
          /\ lock = Nil /\ lock' = Nil]_vars
  /\ [][(pc[T_start] = "gearStart" /\ hist'.started = "failed") =>
          /\ lock = T_start /\ lock' = Nil
          /\ hist'.shutdownRuns = hist.shutdownRuns + 1
          /\ numDispatchersClosed' = numDispatchersClosed]_vars

\* gear.Start failed: Start ran the shutdown routine while it held the lock
\* and released it; no loop exists and no dispatcher was counted
C37_Witness ==
  /\ hist.started = "failed"
  /\ hist.gearStarts = 1
  /\ hist.shutdownRuns = 1
  /\ numDispatchersClosed = 0
  /\ lock = Nil
  /\ closedCloses = 1

\* the terminal state of a started handler: the three loops are gone and the
\* shutdown routine has run
Terminal ==
  /\ \A t \in Loops : pc[t] = "exited"
  /\ numDispatchersClosed = numDispatchersToClose
  /\ hist.shutdownRuns = 1
  /\ closedCloses = 1

\* C38: Stop may run before Start or while Start runs.  Whatever closeOnce
\* says, a Start whose gear starts spawns the three loops.  When Stop's body
\* was over before Start took the lock and Start succeeds, the loops drain
\* what the queues still hold, see the closed queues and the closing signal
\* and exit, and the handler reaches its terminal state: the shutdown routine
\* has run once, it invoked the Shutdown of the current engine once (if one
\* is registered for the state of that moment), and Stopped() is closed
\* once.
C38_StopBeforeStart ==
  /\ [][(pc[T_start] = "gearStart" /\ hist'.started = "ok") =>
          /\ hist'.gearStarts = hist.gearStarts + 1
          /\ pc'[T_sync] = "pop"
          /\ pc'[T_async] = "pop"
          /\ pc'[T_chan] = "select"]_vars
  /\ [][ShutdownRuns =>
          hist'.engineShutdowns =
            IF HasEngine(reg, ctxState.type, ctxState.state) THEN 1 ELSE 0]_vars
  /\ [](/\ closedCloses <= 1
        /\ hist.engineShutdowns <= hist.shutdownRuns
        /\ hist.shutdownRuns <= 1)
  /\ (hist.stopFirst /\ hist.started = "ok") ~> Terminal

\* Stop's body was over before Start; the gear and the loops were started,
\* the sync loop delivered a message that was queued, and the handler is in
\* its terminal state with the engine shut down
C38_Witness ==
  /\ hist.stopFirst
  /\ hist.started = "ok"
  /\ hist.stopBodyRuns = 1
  /\ Terminal
  /\ hist.engineShutdowns = 1
  /\ \E i \in MsgIds : Len(delivered[i]) = 1

\* the messages pushed with a payload that has no case
Unhandled(i) == \E x \in routed[i] : x[2] \in UnhandledOps

\* the engine-type resolution that precedes the switch of handleSyncMsg
\* found an engine
SyncResolved(m) ==
  /\ ~(m.etype = "Snowman" /\ ctxState.type = "Avalanche")
  /\ HasEngine(reg, SyncEngineType(m, ctxState), ctxState.state)

\* C39: a message whose payload has no case in the switch of its handler
\* function reaches no engine; the function returns an error, which its
\* caller (the sync loop, the pool task, the chan loop) hands to
\* StopWithError, and the completion of the message has run, once.  For a
\* sync message the switch is reached when an engine was resolved; the async
\* and chan handlers return an error without an engine as well.
C39_UnhandledPayload ==
  /\ [](\A i \in MsgIds :
          Unhandled(i) => delivered[i] = <<>> /\ finished[i] <= 1)
  /\ [](\A st \in [type : Types, state : States] :
          handleChanMsg("Unhandled", st, reg) = <<>>)
  /\ [][(Dispatches(T_sync) /\ ~cur[T_sync].known
           /\ SyncResolved(cur[T_sync]))
          => NoCallMade(T_sync) /\ pc'[T_sync] = "stop"]_vars
  /\ [][\A w \in Workers :
          (Dispatches(w) /\ ~cur[w].known)
            => NoCallMade(w) /\ pc'[w] = "stop"]_vars
  /\ [][(Dispatches(T_chan)
           /\ handleChanMsg(cur[T_chan].op, ctxState, reg) = <<>>)
          => /\ NoCallMade(T_chan)
             /\ hist'.chanFinished = hist.chanFinished + 1
             /\ pc'[T_chan] = "stop"]_vars
  /\ [][\A t \in Loops \cup Workers :
          (pc[t] = "stop" /\ pc'[t] # "stop") => once' # "fresh"]_vars

\* a sync and an async message with unhandled payloads were popped and
\* completed without any engine call, and the handler has shut down
C39_Witness ==
  /\ \A i \in MsgIds :
       /\ Unhandled(i)
       /\ popped[i] = "intime"
       /\ finished[i] = 1
  /\ \E i \in MsgIds : <<"sync", "Chits">> \in routed[i]
  /\ \E i \in MsgIds : <<"async", "AppGossip">> \in routed[i]
  /\ hist.stopBodyRuns = 1
  /\ closedCloses = 1

\* the functions of package validators that read the default set
Accessors ==
  {"DefaultValidatorList", "IsDefaultValidator", "ExpiredDefaultValidators"}

\* the node IDs of the set a network gets at a timestamp: those compiled in
\* for Songbird and Coston while their expiration has not come, some of
\* those of the environment for the local network, none otherwise
C40_SetFor(networkID, timestamp, ids) ==
  CASE networkID = "SongbirdID" ->
         ids = (IF timestamp < songbirdValidatorsExpTime
                  THEN {"NodeID-HaZ4"} ELSE {})
    [] networkID = "CostonID" ->
         ids = (IF timestamp < costonValidatorsExpTime
                  THEN {CostonNodeIDs[i] : i \in 1..Len(CostonNodeIDs)}
                  ELSE {})
    [] networkID = "LocalID" ->
         /\ ids \subseteq {"NodeID-Cus1", "NodeID-Cus2"}
         /\ ~(timestamp < customValidatorsExpTime') => ids = {}
    [] OTHER -> ids = {}

\* C40: once the default validator set is initialized it never changes
\* again, whatever is called with whatever networkID and timestamp, and
\* neither does the expiration of the custom validators.  The set becomes
\* initialized only in a call of InitializeDefaultValidators, which fixes it
\* from the networkID and the timestamp of that call; a call that returns
\* leaves the set initialized.  DefaultValidatorList, IsDefaultValidator and
\* ExpiredDefaultValidators panic exactly when the set is not initialized.
C40_InitializedAtMostOnce ==
  /\ [][defaultValidators.initialized =>
          /\ defaultValidators' = defaultValidators
          /\ customValidatorsExpTime' = customValidatorsExpTime]_vars
  /\ [][(~defaultValidators.initialized /\ defaultValidators'.initialized)
          => /\ vdrCall'.call = "InitializeDefaultValidators"
             /\ ~vdrCall'.panics
             /\ C40_SetFor(vdrCall'.networkID, vdrCall'.timestamp,
                           DOMAIN defaultValidators'.vdrMap)]_vars
  /\ [][(vdrCall'.call = "InitializeDefaultValidators"
           /\ ~vdrCall'.panics)
          => defaultValidators'.initialized]_vars
  /\ [][vdrCall'.call \in Accessors =>
          (vdrCall'.panics <=> ~defaultValidators.initialized)]_vars

\* the set was fixed for Songbird; a later InitializeDefaultValidators for
\* Coston returned and left it as it was
C40_Witness ==
  /\ defaultValidators.initialized
  /\ DOMAIN defaultValidators.vdrMap = {"NodeID-HaZ4"}
  /\ defaultValidators.vdrMap["NodeID-HaZ4"].weight = songbirdValidatorWeight
  /\ vdrCall.call = "InitializeDefaultValidators"
  /\ vdrCall.networkID = "CostonID"
  /\ vdrCall.timestamp = 0
  /\ ~vdrCall.panics

====
